---- MODULE Spec2Model ----
(***************************************************************************)
(* A model of the PlotCanvas of wxplot (src/plotcanvas.py): the view state *)
(* (last_draw, the axis specs, the data<->screen transform), the public    *)
(* view operations (Draw, Zoom, Reset, ScrollRight, ScrollUp, Redraw,      *)
(* Clear, SetXSpec, SetYSpec), the resize handler and the mouse handlers   *)
(* that drive the drag and zoom-drag gestures.                             *)
(*                                                                         *)
(* Numbers.  The program computes in IEEE doubles.  The model computes in  *)
(* exact rationals <<n, d>> (d > 0, lowest terms), so every statement      *)
(* below is a statement about exact arithmetic.  A double that is not      *)
(* finite is the single value NaN == <<0, 0>>: the only source of such a   *)
(* value is a division by a zero-width axis range, and every inf the       *)
(* program can produce that way is turned into nan by the next operation   *)
(* applied to it (0 * inf, inf - inf, inf / inf) before it is stored in an *)
(* axis range, compared, or returned by PositionScreenToUser.              *)
(*                                                                         *)
(* The model represents the rationals whose numerator and denominator are  *)
(* at most MaxNum in magnitude; an operation on a value outside this       *)
(* window yields Far, and a handler call that would store Far is outside   *)
(* the part of the state space the model explores.                         *)
(*                                                                         *)
(* Exceptions.  A handler that raises stops where it raises: what it       *)
(* assigned before stays assigned, what follows is not executed.           *)
(***************************************************************************)
EXTENDS Integers, Sequences, FiniteSets, TLC

VARIABLES
    last_draw,      \* <<>> (None) or <<graphics, xAxis, yAxis>>
    _xSpec,         \* axis spec of the x axis
    _ySpec,         \* axis spec of the y axis
    _dragEnabled,   \* the drag gesture is active
    _zoomEnabled,   \* the zoom-drag gesture is active
    hasCapture,     \* canvas.HasCapture()
    _dragPoint0,    \* anchor of the drag gesture (<<>> before the first left-down)
    _zoomPoint0,    \* fixed centre of the zoom-drag gesture
    _zoomPoint1,    \* moving point of the zoom-drag gesture
    _pointScale,    \* <<sx, sy>> of the data -> screen transform
    _pointShift,    \* <<tx, ty>> of the data -> screen transform
    clientSize,     \* <<width, height>> of the canvas window
    _logScale,      \* <<x axis is a log axis, y axis is a log axis>>
    _absScale,      \* <<x axis is an abs axis, y axis is an abs axis>>
    drawn,          \* ghost: a draw ran to its end since creation / the last Clear
    lastOp,         \* ghost: what the last handler was called with and what it saw
    budget,         \* ghost: handler calls the model still explores
    ax,             \* the argument/result cell of the pure-function specification
    call,           \* [fn, arg, result]: a function of the tick generator or of
                    \* a plot object, its arguments and what it returned
    box             \* a PolyBoxPlot object

vars == <<last_draw, _xSpec, _ySpec, _dragEnabled, _zoomEnabled, hasCapture,
          _dragPoint0, _zoomPoint0, _zoomPoint1, _pointScale, _pointShift,
          clientSize, _logScale, _absScale, drawn, lastOp, budget, ax, call,
          box>>

(***************************************************************************)
(* Bounds of the model.                                                    *)
(***************************************************************************)
\* handler calls explored from the initial state
MaxOps == 3
\* handler calls explored from the initial state when only the mouse
\* handlers and a plain Draw(graphics) are called
MaxGestureOps == 4
\* numerators and denominators of the numbers the model represents
MaxNum == 30000
\* the pure-function specification draws the bounds lower, upper from
\* n/10, n and 10*n for n in -MaxAxisNum .. MaxAxisNum
MaxAxisNum == 13

(***************************************************************************)
(* Exact rational arithmetic with one not-a-number.                        *)
(***************************************************************************)
NaN == <<0, 0>>

\* a number outside the window the model represents
Far == <<1, 0>>

Abs(n) == IF n < 0 THEN -n ELSE n

RECURSIVE GCD(_, _)
GCD(a, b) == IF b = 0 THEN a ELSE GCD(b, a % b)

\* n/d in lowest terms with a positive denominator; x/0 is not finite
Norm(n, d) ==
    IF d = 0 THEN NaN
    ELSE LET g == GCD(Abs(n), Abs(d))
             s == IF d < 0 THEN -1 ELSE 1
         IN  <<(s * n) \div g, (s * d) \div g>>

R(n) == <<n, 1>>

IsNaN(a) == a = NaN

\* a finite number inside the window
InWindow(a) ==
    /\ a[2] > 0
    /\ a[2] <= MaxNum
    /\ a[1] <= MaxNum
    /\ -a[1] <= MaxNum

IsFar(a) == ~IsNaN(a) /\ ~InWindow(a)

RAdd(a, b) == IF IsFar(a) \/ IsFar(b) THEN Far
              ELSE IF IsNaN(a) \/ IsNaN(b) THEN NaN
              ELSE Norm(a[1] * b[2] + b[1] * a[2], a[2] * b[2])

RNeg(a) == IF InWindow(a) THEN <<-a[1], a[2]>> ELSE a

RSub(a, b) == RAdd(a, RNeg(b))

RMul(a, b) == IF IsFar(a) \/ IsFar(b) THEN Far
              ELSE IF IsNaN(a) \/ IsNaN(b) THEN NaN
              ELSE Norm(a[1] * b[1], a[2] * b[2])

RDiv(a, b) == IF IsFar(a) \/ IsFar(b) THEN Far
              ELSE IF IsNaN(a) \/ IsNaN(b) THEN NaN
              ELSE Norm(a[1] * b[2], a[2] * b[1])

\* comparisons of doubles: every comparison with nan is False
RLt(a, b) == InWindow(a) /\ InWindow(b) /\ a[1] * b[2] < b[1] * a[2]

RLe(a, b) == InWindow(a) /\ InWindow(b) /\ a[1] * b[2] <= b[1] * a[2]

REq(a, b) == InWindow(a) /\ InWindow(b) /\ a = b

RAbs(a) == IF InWindow(a) THEN <<Abs(a[1]), a[2]>> ELSE a

\* np.floor of a finite value, as an integer
RFloor(a) == a[1] \div a[2]

\* a % g for g > 0: the result has the sign of the divisor (Python, numpy)
RMod(a, g) == IF IsFar(a) \/ IsFar(g) THEN Far
              ELSE IF IsNaN(a) \/ IsNaN(g) THEN NaN
              ELSE RSub(a, RMul(g, R(RFloor(RDiv(a, g)))))

RECURSIVE IPow10(_)
IPow10(k) == IF k = 0 THEN 1 ELSE 10 * IPow10(k - 1)

\* 10.**power for an integer power
Pow10(p) == IF p >= 0 THEN <<IPow10(p), 1>> ELSE <<1, IPow10(-p)>>

\* np.floor(np.log10(r)) for r > 0: the p with 10^p <= r < 10^(p+1)
RECURSIVE FloorLog10From(_, _)
FloorLog10From(r, p) ==
    IF RLt(r, Pow10(p)) THEN FloorLog10From(r, p - 1)
    ELSE IF RLe(Pow10(p + 1), r) THEN FloorLog10From(r, p + 1)
    ELSE p

FloorLog10(r) == FloorLog10From(r, 0)

\* fraction <= 0.05: log10(r) - p <= 0.05 iff r / 10^p <= 10^0.05 =
\* 1.122018454301...; these are the first nine decimals of 10^0.05 - 1.  No
\* rational with a denominator of at most MaxNum lies between
\* 1.122018454 and 10^0.05.
TenToFraction == 122018454

\* the first k decimals of r / y for 0 <= r < y, as an integer
RECURSIVE Decimals(_, _, _)
Decimals(r, y, k) ==
    IF k = 0 THEN 0
    ELSE ((r * 10) \div y) * IPow10(k - 1) + Decimals((r * 10) % y, y, k - 1)

\* r / 10^p for a finite r > 0
Mantissa(r, p) ==
    IF p >= 0 THEN Norm(r[1], r[2] * IPow10(p))
    ELSE Norm(r[1] * IPow10(-p), r[2])

\* log10(m) <= 0.05 for 1 <= m < 10
FractionSmall(m) ==
    /\ m[1] < 2 * m[2]
    /\ Decimals(m[1] - m[2], m[2], 9) <= TenToFraction

Pair(a, b) == <<R(a), R(b)>>

\* np.nan_to_num of an axis range: nan becomes 0.0
nan_to_num(r) == <<IF IsNaN(r[1]) THEN R(0) ELSE r[1],
                   IF IsNaN(r[2]) THEN R(0) ELSE r[2]>>

(***************************************************************************)
(* Axis specs and _axisInterval.                                           *)
(* A spec is [kind, lo, hi]: kind "none", "min", "auto"; "number" with the *)
(* tick count in lo; "tuple" or "list" with the pair (lo, hi).             *)
(***************************************************************************)
SpecNone == [kind |-> "none", lo |-> R(0), hi |-> R(0)]

SpecMin == [kind |-> "min", lo |-> R(0), hi |-> R(0)]

SpecAuto == [kind |-> "auto", lo |-> R(0), hi |-> R(0)]

SpecNumber(n) == [kind |-> "number", lo |-> R(n), hi |-> R(0)]

SpecTuple(a, b) == [kind |-> "tuple", lo |-> R(a), hi |-> R(b)]

SpecList(a, b) == [kind |-> "list", lo |-> R(a), hi |-> R(b)]

\* the value of a call that raised
Raised == <<"raise">>

Half == <<1, 2>>

AutoUpperFloor(upper, mod, grid) == RSub(upper, mod)

\* upper rounded up to the next multiple of grid, unless it is one
AutoUpper(upper, mod, grid) ==
    IF mod # R(0) THEN RAdd(RSub(upper, mod), grid) ELSE upper

\* lower = lower - (lower % grid); upper as above
AutoRounded(lower, upper, grid) ==
    <<RSub(lower, RMod(lower, grid)), AutoUpper(upper, RMod(upper, grid), grid)>>

\* power = floor(log); if log - power <= 0.05 then power = power - 1
AutoPower(range, floorlog) ==
    IF FractionSmall(Mantissa(range, floorlog)) THEN floorlog - 1
    ELSE floorlog

AutoRange(lower, upper, range) ==
    IF REq(range, R(0))
    THEN <<RSub(lower, Half), RAdd(upper, Half)>>
    ELSE IF ~RLt(R(0), range)
    THEN <<NaN, NaN>>              \* np.log10 of a negative range is nan
    ELSE AutoRounded(lower, upper, Pow10(AutoPower(range, FloorLog10(range))))

\* the 'auto' branch of _axisInterval
AutoInterval(lower, upper) == AutoRange(lower, upper, RSub(upper, lower))

\* the tuple branch of _axisInterval
TupleInterval(spec) ==
    IF RLe(spec.lo, spec.hi) THEN <<spec.lo, spec.hi>>
    ELSE <<spec.hi, spec.lo>>

_axisInterval(spec, lower, upper) ==
    IF spec.kind \in {"none", "min", "number"}
    THEN IF lower = upper
         THEN <<RSub(lower, Half), RAdd(upper, Half)>>
         ELSE <<lower, upper>>
    ELSE IF spec.kind = "auto" THEN AutoInterval(lower, upper)
    ELSE IF spec.kind = "tuple" THEN TupleInterval(spec)
    ELSE Raised                    \* ValueError: illegal axis specification

(***************************************************************************)
(* Inputs: the graphics a caller can draw, the ranges, ratios, centres and *)
(* units a caller can pass, the client sizes and the cursor positions.     *)
(***************************************************************************)
None == <<>>

IsNone(v) == Len(v) = 0

IsRaised(v) == Len(v) = 1

\* PlotGraphics objects, known to the canvas by their bounding box (p1, p2)
Graphics ==
    { [name |-> "g1", p1 |-> Pair(-10, -10), p2 |-> Pair(10, 10),
       logScale |-> <<FALSE, FALSE>>],
      [name |-> "g2", p1 |-> Pair(2, 3), p2 |-> Pair(2, 47),
       logScale |-> <<FALSE, FALSE>>] }

\* the (xAxis, yAxis) arguments of Draw: absent, ascending, reversed and
\* zero-width ranges
DrawAxes ==
    { <<None, None>>, <<Pair(-10, 10), Pair(-10, 10)>>,
      <<Pair(-10, 10), None>>, <<None, Pair(-10, 10)>>,
      <<Pair(10, -10), None>>, <<Pair(10, -10), Pair(-10, 10)>>,
      <<None, Pair(10, -10)>>,
      <<Pair(3, 3), None>>, <<None, Pair(3, 3)>>,
      <<Pair(-10, 10), Pair(3, 3)>> }

\* the arguments of Zoom
ZoomCenters == {Pair(0, 0), Pair(5, -5)}

ZoomRatios == {<<Half, Half>>, Pair(2, 1), Pair(0, 1), Pair(1, -1)}

\* the argument of ScrollRight / ScrollUp
ScrollUnits == {R(5), <<-1, 2>>}

\* the values SetXSpec / SetYSpec accept
AxisSpecs == {SpecNone, SpecAuto, SpecNumber(5), SpecTuple(4, 0),
              SpecList(0, 4)}

\* canvas.GetClientSize()
ClientSizes == {<<200, 200>>, <<400, 400>>}

\* cursor positions of mouse events, in 200ths of the client size: the
\* lower left corner of the plot area, a point a quarter of the way in on
\* both axes, and the lower right corner
CursorAt == {<<13, 190>>, <<58, 145>>, <<193, 190>>}

\* event.GetPosition(): integer pixels
GetPosition(at, size) ==
    <<R((at[1] * size[1]) \div 200), R((at[2] * size[2]) \div 200)>>

(***************************************************************************)
(* Geometry of the plot area (_setSize, _Draw).                            *)
(***************************************************************************)
Vec(a, b) == <<a, b>>

VAdd(u, v) == <<RAdd(u[1], v[1]), RAdd(u[2], v[2])>>

VSub(u, v) == <<RSub(u[1], v[1]), RSub(u[2], v[2])>>

VMul(u, v) == <<RMul(u[1], v[1]), RMul(u[2], v[2])>>

VDiv(u, v) == <<RDiv(u[1], v[1]), RDiv(u[2], v[2])>>

\* np.array((1, -1)): data y grows upwards, screen y downwards
FlipY == Pair(1, -1)

\* self.plotbox_size = 0.97 * (width, height)
plotbox_size(size) ==
    <<RMul(<<97, 100>>, R(size[1])), RMul(<<97, 100>>, R(size[2]))>>

\* self.plotbox_origin = (0.5 * (width - w), height - 0.5 * (height - h))
plotbox_origin(size) ==
    LET pb == plotbox_size(size)
    IN  <<RMul(Half, RSub(R(size[1]), pb[1])),
          RSub(R(size[2]), RMul(Half, RSub(R(size[2]), pb[2])))>>

\* (rhsW + lhsW, bottomH + topH): the room the tick labels, the axis labels,
\* the title and the legend take, as the device context measures them; here
\* 7 % of the client size
textSize_scale(size) ==
    <<RMul(<<7, 100>>, R(size[1])), RMul(<<7, 100>>, R(size[2]))>>

\* (lhsW, bottomH); here 5 % of the width and 3.5 % of the height
textSize_shift(size) ==
    <<RMul(<<5, 100>>, R(size[1])), RMul(<<35, 1000>>, R(size[2]))>>

\* scale = (plotbox_size - textSize_scale) / (p2 - p1) * (1, -1)
DrawScale(size, p1, p2) ==
    VMul(VDiv(VSub(plotbox_size(size), textSize_scale(size)), VSub(p2, p1)),
         FlipY)

\* shift = -p1 * scale + plotbox_origin + textSize_shift * (1, -1)
DrawShift(size, p1, scale) ==
    VAdd(VAdd(VMul(<<RNeg(p1[1]), RNeg(p1[2])>>, scale), plotbox_origin(size)),
         VMul(textSize_shift(size), FlipY))

PositionUserToScreen_Of(scale, shift, pntXY) == VAdd(VMul(pntXY, scale), shift)

PositionScreenToUser_Misplaced(scale, shift, pntXY) ==
    VSub(pntXY, VDiv(shift, scale))

PositionScreenToUser_Of(scale, shift, pntXY) == VDiv(VSub(pntXY, shift), scale)

PositionUserToScreen(pntXY) ==
    PositionUserToScreen_Of(_pointScale, _pointShift, pntXY)

PositionScreenToUser(pntXY) ==
    PositionScreenToUser_Of(_pointScale, _pointShift, pntXY)

\* _getXY(event)
_getXY(at) == PositionScreenToUser(GetPosition(at, clientSize))

(***************************************************************************)
(* The view: what _Draw reads and writes.  A view operation maps a view to *)
(* a view; "raised" says that the call stopped with an exception.          *)
(***************************************************************************)
View == [last_draw |-> last_draw, scale |-> _pointScale,
         shift |-> _pointShift, raised |-> FALSE, drawn |-> drawn]

\* the powers of ten inside the number window, with their exponents
Decades ==
    { <<<<1, 100>>, R(-2)>>, <<<<1, 10>>, R(-1)>>, <<R(1), R(0)>>,
      <<R(10), R(1)>>, <<R(100), R(2)>>, <<R(1000), R(3)>>,
      <<R(10000), R(4)>> }

\* np.log10(a): nan below 0, -inf at 0; the logarithm of a number that is
\* not a power of ten is not a rational and lies outside the window
Log10(a) ==
    IF IsNaN(a) THEN NaN
    ELSE IF \E d \in Decades : d[1] = a
    THEN (CHOOSE d \in Decades : d[1] = a)[2]
    ELSE IF InWindow(a) /\ a[1] < 0 THEN NaN
    ELSE Far

\* a point of a graphics whose logScale is log: log10 of the coordinates of
\* its log axes
LogPoint(p, log) ==
    <<IF log[1] THEN Log10(p[1]) ELSE p[1],
      IF log[2] THEN Log10(p[2]) ELSE p[2]>>

\* graphics.boundingBox(): the corners of the points as graphics.logScale
\* has them
boundingBox(graphics) ==
    <<LogPoint(graphics.p1, graphics.logScale),
      LogPoint(graphics.p2, graphics.logScale)>>

\* _xticks / _yticks raise on a range that is not ascending: _ticks takes
\* log10 of (upper - lower) / 7 and converts the floor of it, -inf or nan,
\* to an int to build the number format
TicksRaise(spec, axis) == spec.kind # "none" /\ ~RLt(axis[1], axis[2])

\* _logticks raises where it converts log10(mag) to an int: on a lower end
\* that is nan
LogTicksRaise(spec, axis) == spec.kind # "none" /\ IsNaN(axis[1])

\* _xticks / _yticks: _logticks on a log axis, _ticks otherwise
_xticksRaise(axis) ==
    IF _logScale[1] THEN LogTicksRaise(_xSpec, axis)
    ELSE TicksRaise(_xSpec, axis)

_yticksRaise(axis) ==
    IF _logScale[2] THEN LogTicksRaise(_ySpec, axis)
    ELSE TicksRaise(_ySpec, axis)

\* the transform is made available for mouse events; the clipping region
\* that follows converts the corners of the plot to int, which raises on a
\* transform that is not finite
_DrawTransform(cv, size, p1, scale) ==
    IF IsNaN(scale[1]) \/ IsNaN(scale[2])
    THEN [cv EXCEPT !.scale = scale, !.shift = DrawShift(size, p1, scale),
                    !.raised = TRUE]
    ELSE [cv EXCEPT !.scale = scale, !.shift = DrawShift(size, p1, scale),
                    !.drawn = TRUE]

\* _Draw from "saves most recent values" on
_DrawSaved(cv, size, graphics, xAxis, yAxis) ==
    IF _xticksRaise(xAxis) \/ _yticksRaise(yAxis)
    THEN [cv EXCEPT !.last_draw = <<graphics, xAxis, yAxis>>, !.raised = TRUE]
    ELSE _DrawTransform([cv EXCEPT !.last_draw = <<graphics, xAxis, yAxis>>],
                        size, <<xAxis[1], yAxis[1]>>,
                        DrawScale(size, <<xAxis[1], yAxis[1]>>,
                                  <<xAxis[2], yAxis[2]>>))

\* _Draw once both axes are resolved; both: the caller gave both
_DrawResolved(cv, size, graphics, both, xAxis, yAxis) ==
    IF IsRaised(xAxis) \/ IsRaised(yAxis)
    THEN [cv EXCEPT !.raised = TRUE]
    ELSE _DrawSaved(cv, size, graphics,
                    IF both THEN nan_to_num(xAxis) ELSE xAxis,
                    IF both THEN nan_to_num(yAxis) ELSE yAxis)

_Draw(cv, size, graphics, xAxis, yAxis) ==
    _DrawResolved(cv, size, graphics, ~IsNone(xAxis) /\ ~IsNone(yAxis),
                  IF IsNone(xAxis)
                  THEN _axisInterval(_xSpec, boundingBox(graphics)[1][1],
                                     boundingBox(graphics)[2][1])
                  ELSE xAxis,
                  IF IsNone(yAxis)
                  THEN _axisInterval(_ySpec, boundingBox(graphics)[1][2],
                                     boundingBox(graphics)[2][2])
                  ELSE yAxis)

ZoomAxisNoOffset(axis, c, ratio) ==
    LET w == RMul(RSub(axis[2], axis[1]), ratio)
    IN  <<RSub(c, RDiv(w, R(2))), RAdd(c, RDiv(w, R(2)))>>

\* one axis of Zoom: d = ((lo + hi) / 2 - c) * ratio, w = (hi - lo) * ratio,
\* the new range is (c - w / 2 + d, c + w / 2 + d)
ZoomAxis(axis, c, ratio) ==
    LET d == RMul(RSub(RDiv(RAdd(axis[1], axis[2]), R(2)), c), ratio)
        w == RMul(RSub(axis[2], axis[1]), ratio)
    IN  <<RAdd(RSub(c, RDiv(w, R(2))), d), RAdd(RAdd(c, RDiv(w, R(2))), d)>>

\* Zoom(Center, Ratio)
Zoom(cv, size, Center, Ratio) ==
    IF IsNone(cv.last_draw) THEN cv
    ELSE IF IsNone(cv.last_draw[2]) \/ IsNone(cv.last_draw[3])
    THEN [cv EXCEPT !.raised = TRUE]            \* None is not subscriptable
    ELSE _Draw(cv, size, cv.last_draw[1],
               ZoomAxis(cv.last_draw[2], Center[1], Ratio[1]),
               ZoomAxis(cv.last_draw[3], Center[2], Ratio[2]))

\* range + units, elementwise
AxisShift(axis, units) == <<RAdd(axis[1], units), RAdd(axis[2], units)>>

\* np.log10(axis) of a range given to Draw for a log axis
LogAxis(axis, log) ==
    IF IsNone(axis) \/ ~log THEN axis ELSE <<Log10(axis[1]), Log10(axis[2])>>

\* Draw(graphics, xAxis, yAxis): graphics.logScale = self._logScale first
Draw(cv, size, graphics, xAxis, yAxis) ==
    IF ~IsNone(xAxis) /\ xAxis[1] = xAxis[2] THEN cv
    ELSE IF ~IsNone(yAxis) /\ yAxis[1] = yAxis[2] THEN cv
    ELSE _Draw(cv, size, [graphics EXCEPT !.logScale = _logScale],
               LogAxis(xAxis, _logScale[1]), LogAxis(yAxis, _logScale[2]))

\* SetLogScale(logscale) with a 2-tuple: the graphics of the last draw takes
\* the setting and both of its ranges are dropped
SetLogScale(cv, logscale) ==
    IF IsNone(cv.last_draw) THEN cv
    ELSE [cv EXCEPT !.last_draw =
              <<[cv.last_draw[1] EXCEPT !.logScale = logscale], None, None>>]

\* SetAbsScale(absscale) with a 2-tuple: graphics.logScale = absscale
SetAbsScale(cv, absscale) ==
    IF IsNone(cv.last_draw) THEN cv
    ELSE [cv EXCEPT !.last_draw =
              <<[cv.last_draw[1] EXCEPT !.logScale = absscale], None, None>>]

\* Reset()
Reset(cv, size) ==
    IF IsNone(cv.last_draw) THEN cv
    ELSE _Draw(cv, size, cv.last_draw[1], None, None)

\* ScrollRight(units)
ScrollRight(cv, size, units) ==
    IF IsNone(cv.last_draw) THEN cv
    ELSE IF IsNone(cv.last_draw[2]) THEN [cv EXCEPT !.raised = TRUE]
    ELSE _Draw(cv, size, cv.last_draw[1],
               AxisShift(cv.last_draw[2], units), cv.last_draw[3])

\* ScrollUp(units)
ScrollUp(cv, size, units) ==
    IF IsNone(cv.last_draw) THEN cv
    ELSE IF IsNone(cv.last_draw[3]) THEN [cv EXCEPT !.raised = TRUE]
    ELSE _Draw(cv, size, cv.last_draw[1],
               cv.last_draw[2], AxisShift(cv.last_draw[3], units))

RedrawResolvingRanges(cv, size) ==
    IF IsNone(cv.last_draw) THEN cv
    ELSE _Draw(cv, size, cv.last_draw[1], None, None)

\* Redraw()
Redraw(cv, size) ==
    IF IsNone(cv.last_draw) THEN cv
    ELSE _Draw(cv, size, cv.last_draw[1], cv.last_draw[2], cv.last_draw[3])

\* Clear()
Clear(cv) == [cv EXCEPT !.last_draw = None, !.drawn = FALSE]

\* OnSize(event), after _setSize took the new client size
OnSize(cv, size) ==
    IF IsNone(cv.last_draw) THEN Clear(cv)
    ELSE _Draw(cv, size, cv.last_draw[1], cv.last_draw[2], cv.last_draw[3])

_getXMaxRangeOfView(graphics) ==
    IF Len(last_draw) = 3 /\ Len(last_draw[2]) = 2 THEN last_draw[2]
    ELSE _axisInterval(_xSpec, boundingBox(graphics)[1][1],
                       boundingBox(graphics)[2][1])

\* _getXMaxRange / _getYMaxRange for the graphics of last_draw
_getXMaxRange(graphics) ==
    _axisInterval(_xSpec, boundingBox(graphics)[1][1],
                  boundingBox(graphics)[2][1])

_getYMaxRange(graphics) ==
    _axisInterval(_ySpec, boundingBox(graphics)[1][2],
                  boundingBox(graphics)[2][2])

\* the value of GetXMaxRange() / GetYMaxRange() in the current state (no
\* log scale); without a plot last_draw[0] raises
GetXMaxRange ==
    IF IsNone(last_draw) THEN Raised ELSE _getXMaxRange(last_draw[1])

GetYMaxRange ==
    IF IsNone(last_draw) THEN Raised ELSE _getYMaxRange(last_draw[1])

\* OnMouseWheel: ratio = (0.9, 0.9) if rotation > 0 else (1.1, 1.1)
WheelRatio(rotation) ==
    IF rotation > 0 THEN <<<<9, 10>>, <<9, 10>>>> ELSE <<<<11, 10>>, <<11, 10>>>>

\* the wheel rotations of an event
WheelRotations == {120, -120}

(***************************************************************************)
(* The gestures: the flags behind the _DragEnabled / _ZoomEnabled          *)
(* properties, the mouse capture their setters take and release, and the   *)
(* anchor points.                                                          *)
(***************************************************************************)
Gesture == [drag |-> _dragEnabled, zoom |-> _zoomEnabled,
            capture |-> hasCapture, dragPoint0 |-> _dragPoint0,
            zoomPoint0 |-> _zoomPoint0, zoomPoint1 |-> _zoomPoint1]

\* _DragEnabled.setter: capture the mouse on True, release it on False
Set_DragEnabled(gs, value) == [gs EXCEPT !.drag = value, !.capture = value]

\* _ZoomEnabled.setter: capture the mouse on True, release it on False
Set_ZoomEnabled(gs, value) == [gs EXCEPT !.zoom = value, !.capture = value]

_move_leave(gs) ==
    IF ~gs.capture
    THEN Set_ZoomEnabled(Set_DragEnabled(gs, FALSE), FALSE)
    ELSE gs

OnMouseLeftDown(gs, xy) ==
    Set_DragEnabled([gs EXCEPT !.dragPoint0 = xy], TRUE)

OnMouseLeftUp(gs) == Set_DragEnabled(gs, FALSE)

OnMouseRightDown(gs, xy) ==
    Set_ZoomEnabled([gs EXCEPT !.zoomPoint0 = xy, !.zoomPoint1 = xy], TRUE)

OnMouseRightUp(gs) == Set_ZoomEnabled(gs, FALSE)

OnLeave(gs) ==
    LET g1 == IF gs.drag THEN Set_DragEnabled(gs, FALSE) ELSE gs
    IN  IF g1.zoom THEN Set_ZoomEnabled(g1, FALSE) ELSE g1

\* the drag branch of OnMotion after its _Draw returned the view cv1
OnMotionDragged(cv1, gs, xy) ==
    IF cv1.raised THEN <<cv1, gs>>
    ELSE <<cv1, _move_leave([gs EXCEPT !.dragPoint0 = xy])>>

\* the drag branch of OnMotion: <<view, gestures>> after it
OnMotionDrag(cv, gs, size, xy) ==
    OnMotionDragged(
        IF IsNone(cv.last_draw[2]) \/ IsNone(cv.last_draw[3])
        THEN [cv EXCEPT !.raised = TRUE]       \* None - dx
        ELSE _Draw(cv, size, cv.last_draw[1],
                   AxisShift(cv.last_draw[2], RNeg(VSub(xy, gs.dragPoint0)[1])),
                   AxisShift(cv.last_draw[3], RNeg(VSub(xy, gs.dragPoint0)[2]))),
        gs, xy)

\* raito of the zoom branch for the cursor displacement d
ZoomDragRatio(d, xAxis, yAxis) ==
    IF IsFar(d[1]) \/ IsFar(d[2]) THEN <<Far, Far>>
    ELSE IF RLt(RAbs(d[2]), RAbs(d[1]))
    THEN <<RSub(R(1), RDiv(d[1], RSub(xAxis[2], xAxis[1]))), R(1)>>
    ELSE IF RLt(RAbs(d[1]), RAbs(d[2]))
    THEN <<R(1), RSub(R(1), RDiv(d[2], RSub(yAxis[2], yAxis[1])))>>
    ELSE Pair(1, 1)

\* the zoom branch sets _ZoomEnabled = (True, 'x' / 'y') when it picks an axis
ZoomDragPicks(d) == RAbs(d[1]) # RAbs(d[2]) /\ ~IsNaN(d[1]) /\ ~IsNaN(d[2])

\* the zoom branch of OnMotion after its Zoom returned the view cv1
OnMotionZoomed(cv1, gs1, xy) ==
    IF cv1.raised THEN <<cv1, gs1>>
    ELSE <<cv1, _move_leave([gs1 EXCEPT !.zoomPoint1 = xy])>>

\* the zoom branch of OnMotion; xAxis, yAxis are the handler's locals, which
\* the drag branch has shifted when it ran
OnMotionZoom(cv, gs, size, xy, xAxis, yAxis) ==
    OnMotionZoomed(
        Zoom(cv, size, gs.zoomPoint0,
             ZoomDragRatio(VSub(xy, gs.zoomPoint1), xAxis, yAxis)),
        IF ZoomDragPicks(VSub(xy, gs.zoomPoint1))
        THEN Set_ZoomEnabled(gs, TRUE) ELSE gs,
        xy)

\* OnMotion after the drag branch left <<view, gestures>> = a
OnMotionAfterDrag(a, cv, gs, size, xy) ==
    IF a[1].raised \/ ~a[2].zoom THEN a
    ELSE IF IsNone(cv.last_draw[2]) \/ IsNone(cv.last_draw[3])
    THEN <<[a[1] EXCEPT !.raised = TRUE], a[2]>>
    ELSE OnMotionZoom(a[1], a[2], size, xy,
             IF gs.drag
             THEN AxisShift(cv.last_draw[2], RNeg(VSub(xy, gs.dragPoint0)[1]))
             ELSE cv.last_draw[2],
             IF gs.drag
             THEN AxisShift(cv.last_draw[3], RNeg(VSub(xy, gs.dragPoint0)[2]))
             ELSE cv.last_draw[3])

\* OnMotion(event): <<view, gestures>> after the handler
OnMotion(cv, gs, size, xy) ==
    IF IsNone(cv.last_draw) THEN <<cv, _move_leave(gs)>>
    ELSE OnMotionAfterDrag(
             IF gs.drag THEN OnMotionDrag(cv, gs, size, xy) ELSE <<cv, gs>>,
             cv, gs, size, xy)

(***************************************************************************)
(* The canvas as a state machine: one action per public operation and per  *)
(* event handler.                                                          *)
(***************************************************************************)
\* what a handler saw when it was called
PreState == [view |-> View, gs |-> Gesture, xSpec |-> _xSpec,
             ySpec |-> _ySpec, size |-> clientSize, logScale |-> _logScale,
             absScale |-> _absScale]

\* the pure-function cell while no function is applied
AxIdle == [spec |-> SpecAuto, lower |-> R(0), upper |-> R(0), result |-> None]

\* the arguments of a call and the value it returns are records; this one
\* stands for no arguments and for the value None
NoValue == [none |-> TRUE]

\* what a call of a function leaves: the value it returned, or that it raised
Return(v) == [raised |-> FALSE, value |-> v]

Raise == [raised |-> TRUE, value |-> NoValue]

\* no PolyBoxPlot object
BoxIdle == [state |-> "none"]

\* the function cell while no function is applied
CallIdle == [fn |-> "idle", arg |-> NoValue, result |-> Raise, done |-> FALSE]

\* the inputs of the pure-function specification
AxisNums ==
    { Norm(n * m, 10) : n \in -MaxAxisNum .. MaxAxisNum, m \in {1, 10, 100} }

AxisIntervalSpecs == {SpecAuto, SpecMin, SpecTuple(4, 0), SpecList(0, 4)}

\* the state _init_var leaves, after the first OnSize(None)
InitWidget ==
    /\ _xSpec = SpecAuto
    /\ _ySpec = SpecAuto
    /\ _dragEnabled = FALSE
    /\ _zoomEnabled = FALSE
    /\ hasCapture = FALSE
    /\ _dragPoint0 = None
    /\ _zoomPoint0 = None
    /\ _zoomPoint1 = None
    /\ clientSize = <<200, 200>>
    /\ _logScale = <<FALSE, FALSE>>
    /\ _absScale = <<FALSE, FALSE>>
    /\ lastOp = [op |-> "init", arg |-> <<>>, raised |-> FALSE,
                 pre |-> [view |-> [last_draw |-> None, scale |-> Pair(1, 1),
                                    shift |-> Pair(0, 0), raised |-> FALSE,
                                    drawn |-> FALSE],
                          gs |-> [drag |-> FALSE, zoom |-> FALSE,
                                  capture |-> FALSE, dragPoint0 |-> None,
                                  zoomPoint0 |-> None, zoomPoint1 |-> None],
                          xSpec |-> SpecAuto, ySpec |-> SpecAuto,
                          size |-> <<200, 200>>,
                          logScale |-> <<FALSE, FALSE>>,
                          absScale |-> <<FALSE, FALSE>>]]

\* the canvas before any draw
InitCanvas ==
    /\ last_draw = None
    /\ _pointScale = Pair(1, 1)
    /\ _pointShift = Pair(0, 0)
    /\ drawn = FALSE
    /\ InitWidget

Init ==
    /\ InitCanvas
    /\ budget = MaxOps
    /\ ax = AxIdle
    /\ call = CallIdle
    /\ box = BoxIdle

\* the numbers of a view and of the gestures are inside the window
NumInWindow(a) == IF IsNaN(a) THEN TRUE ELSE InWindow(a)

VecInWindow(v) ==
    IF IsNone(v) THEN TRUE ELSE NumInWindow(v[1]) /\ NumInWindow(v[2])

ViewInWindow(cv) ==
    /\ VecInWindow(cv.scale)
    /\ VecInWindow(cv.shift)
    /\ IF IsNone(cv.last_draw) THEN TRUE
       ELSE VecInWindow(cv.last_draw[2]) /\ VecInWindow(cv.last_draw[3])

GestureInWindow(gs) ==
    /\ VecInWindow(gs.dragPoint0)
    /\ VecInWindow(gs.zoomPoint0)
    /\ VecInWindow(gs.zoomPoint1)

\* the handler named op, called with arg, leaves the view cv and the
\* gestures gs
CommitView(op, arg, cv, gs) ==
    /\ budget > 0
    /\ ViewInWindow(cv)
    /\ GestureInWindow(gs)
    /\ last_draw' = cv.last_draw
    /\ _pointScale' = cv.scale
    /\ _pointShift' = cv.shift
    /\ drawn' = cv.drawn
    /\ _dragEnabled' = gs.drag
    /\ _zoomEnabled' = gs.zoom
    /\ hasCapture' = gs.capture
    /\ _dragPoint0' = gs.dragPoint0
    /\ _zoomPoint0' = gs.zoomPoint0
    /\ _zoomPoint1' = gs.zoomPoint1
    /\ lastOp' = [op |-> op, arg |-> arg, raised |-> cv.raised, pre |-> PreState]
    /\ budget' = budget - 1
    /\ UNCHANGED <<ax, call, box>>

\* a handler that leaves the scale settings alone
Commit(op, arg, cv, gs) ==
    /\ CommitView(op, arg, cv, gs)
    /\ UNCHANGED <<_logScale, _absScale>>

\* Commit for a handler that returns <<view, gestures>>
CommitBoth(op, arg, r) == Commit(op, arg, r[1], r[2])

DoDraw ==
    \E graphics \in Graphics, axes \in DrawAxes :
        /\ Commit("Draw", <<graphics, axes[1], axes[2]>>,
                  Draw(View, clientSize, graphics, axes[1], axes[2]), Gesture)
        /\ UNCHANGED <<_xSpec, _ySpec, clientSize>>

DoZoom ==
    \E Center \in ZoomCenters, Ratio \in ZoomRatios :
        /\ Commit("Zoom", <<Center, Ratio>>,
                  Zoom(View, clientSize, Center, Ratio), Gesture)
        /\ UNCHANGED <<_xSpec, _ySpec, clientSize>>

DoReset ==
    /\ Commit("Reset", <<>>, Reset(View, clientSize), Gesture)
    /\ UNCHANGED <<_xSpec, _ySpec, clientSize>>

DoScrollRight ==
    \E units \in ScrollUnits :
        /\ Commit("ScrollRight", <<units>>,
                  ScrollRight(View, clientSize, units), Gesture)
        /\ UNCHANGED <<_xSpec, _ySpec, clientSize>>

DoScrollUp ==
    \E units \in ScrollUnits :
        /\ Commit("ScrollUp", <<units>>,
                  ScrollUp(View, clientSize, units), Gesture)
        /\ UNCHANGED <<_xSpec, _ySpec, clientSize>>

DoRedraw ==
    /\ Commit("Redraw", <<>>, Redraw(View, clientSize), Gesture)
    /\ UNCHANGED <<_xSpec, _ySpec, clientSize>>

DoClear ==
    /\ Commit("Clear", <<>>, Clear(View), Gesture)
    /\ UNCHANGED <<_xSpec, _ySpec, clientSize>>

DoSetXSpec ==
    \E spectype \in AxisSpecs :
        /\ Commit("SetXSpec", <<spectype>>, View, Gesture)
        /\ _xSpec' = spectype
        /\ UNCHANGED <<_ySpec, clientSize>>

DoSetYSpec ==
    \E spectype \in AxisSpecs :
        /\ Commit("SetYSpec", <<spectype>>, View, Gesture)
        /\ _ySpec' = spectype
        /\ UNCHANGED <<_xSpec, clientSize>>

DoOnSize ==
    \E size \in ClientSizes :
        /\ Commit("OnSize", <<size>>, OnSize(View, size), Gesture)
        /\ clientSize' = size
        /\ UNCHANGED <<_xSpec, _ySpec>>

DoOnMouseLeftDown ==
    \E at \in CursorAt :
        /\ Commit("OnMouseLeftDown", <<at>>, View,
                  OnMouseLeftDown(Gesture, _getXY(at)))
        /\ UNCHANGED <<_xSpec, _ySpec, clientSize>>

DoOnMouseLeftUp ==
    /\ Commit("OnMouseLeftUp", <<>>, View, OnMouseLeftUp(Gesture))
    /\ UNCHANGED <<_xSpec, _ySpec, clientSize>>

DoOnMouseRightDown ==
    \E at \in CursorAt :
        /\ Commit("OnMouseRightDown", <<at>>, View,
                  OnMouseRightDown(Gesture, _getXY(at)))
        /\ UNCHANGED <<_xSpec, _ySpec, clientSize>>

DoOnMouseRightUp ==
    /\ Commit("OnMouseRightUp", <<>>, View, OnMouseRightUp(Gesture))
    /\ UNCHANGED <<_xSpec, _ySpec, clientSize>>

DoOnMouseMiddleUp ==
    /\ Commit("OnMouseMiddleUp", <<>>, Reset(View, clientSize), Gesture)
    /\ UNCHANGED <<_xSpec, _ySpec, clientSize>>

DoOnMouseWheel ==
    \E at \in CursorAt, rotation \in WheelRotations :
        /\ Commit("OnMouseWheel", <<at, rotation>>,
                  Zoom(View, clientSize, _getXY(at), WheelRatio(rotation)),
                  Gesture)
        /\ UNCHANGED <<_xSpec, _ySpec, clientSize>>

DoOnMotion ==
    \E at \in CursorAt :
        /\ CommitBoth("OnMotion", <<at>>,
                      OnMotion(View, Gesture, clientSize, _getXY(at)))
        /\ UNCHANGED <<_xSpec, _ySpec, clientSize>>

DoOnLeave ==
    /\ Commit("OnLeave", <<>>, View, OnLeave(Gesture))
    /\ UNCHANGED <<_xSpec, _ySpec, clientSize>>

Next ==
    \/ DoDraw
    \/ DoZoom
    \/ DoReset
    \/ DoScrollRight
    \/ DoScrollUp
    \/ DoRedraw
    \/ DoClear
    \/ DoSetXSpec
    \/ DoSetYSpec
    \/ DoOnSize
    \/ DoOnMouseLeftDown
    \/ DoOnMouseLeftUp
    \/ DoOnMouseRightDown
    \/ DoOnMouseRightUp
    \/ DoOnMouseMiddleUp
    \/ DoOnMouseWheel
    \/ DoOnMotion
    \/ DoOnLeave

Spec == Init /\ [][Next]_vars

(***************************************************************************)
(* The mouse handlers on a plot drawn with Draw(graphics), explored one    *)
(* call deeper.                                                            *)
(***************************************************************************)
InitGesture ==
    /\ InitCanvas
    /\ budget = MaxGestureOps
    /\ ax = AxIdle
    /\ call = CallIdle
    /\ box = BoxIdle

\* Draw(graphics): both axes resolved from the axis specs
DoDrawAuto ==
    \E graphics \in Graphics :
        /\ Commit("Draw", <<graphics, None, None>>,
                  Draw(View, clientSize, graphics, None, None), Gesture)
        /\ UNCHANGED <<_xSpec, _ySpec, clientSize>>

NextGesture ==
    \/ DoDrawAuto
    \/ DoOnMouseLeftDown
    \/ DoOnMouseLeftUp
    \/ DoOnMouseRightDown
    \/ DoOnMouseRightUp
    \/ DoOnMouseMiddleUp
    \/ DoOnMouseWheel
    \/ DoOnMotion
    \/ DoOnLeave

SpecGesture == InitGesture /\ [][NextGesture]_vars

(***************************************************************************)
(* The scale settings: SetLogScale and SetAbsScale between draws of a      *)
(* graphics whose points are powers of ten, and the operations that read   *)
(* the ranges of last_draw.                                                *)
(***************************************************************************)
\* handler calls explored from the fresh canvas
MaxScaleOps == 3

ScaleGraphics ==
    { [name |-> "g3", p1 |-> Pair(1, 10), p2 |-> Pair(100, 1000),
       logScale |-> <<FALSE, FALSE>>] }

\* the argument of a scale setter: 2-tuples of bools, and a 1-tuple
ScaleArgs == {<<FALSE, FALSE>>, <<TRUE, FALSE>>, <<TRUE, TRUE>>, <<TRUE>>}

InitScale ==
    /\ InitCanvas
    /\ budget = MaxScaleOps
    /\ ax = AxIdle
    /\ call = CallIdle
    /\ box = BoxIdle

DoDrawOnScale ==
    \E graphics \in ScaleGraphics :
        /\ Commit("Draw", <<graphics, None, None>>,
                  Draw(View, clientSize, graphics, None, None), Gesture)
        /\ UNCHANGED <<_xSpec, _ySpec, clientSize>>

\* SetLogScale(logscale): TypeError unless logscale is a 2-tuple
DoSetLogScale ==
    \E logscale \in ScaleArgs :
        IF Len(logscale) # 2
        THEN /\ Commit("SetLogScale", <<logscale>>,
                       [View EXCEPT !.raised = TRUE], Gesture)
             /\ UNCHANGED <<_xSpec, _ySpec, clientSize>>
        ELSE /\ CommitView("SetLogScale", <<logscale>>,
                           SetLogScale(View, logscale), Gesture)
             /\ _xSpec' = SpecMin
             /\ _ySpec' = SpecMin
             /\ _logScale' = logscale
             /\ UNCHANGED <<clientSize, _absScale>>

\* SetAbsScale(absscale): TypeError unless absscale is a 2-tuple
DoSetAbsScale ==
    \E absscale \in ScaleArgs :
        IF Len(absscale) # 2
        THEN /\ Commit("SetAbsScale", <<absscale>>,
                       [View EXCEPT !.raised = TRUE], Gesture)
             /\ UNCHANGED <<_xSpec, _ySpec, clientSize>>
        ELSE /\ CommitView("SetAbsScale", <<absscale>>,
                           SetAbsScale(View, absscale), Gesture)
             /\ _xSpec' = SpecMin
             /\ _ySpec' = SpecMin
             /\ _absScale' = absscale
             /\ UNCHANGED <<clientSize, _logScale>>

\* the value of SetEnableGrid: a bool, a 2-tuple of bools, anything else
GridValues == {<<TRUE>>, <<TRUE, FALSE>>, <<TRUE, TRUE, TRUE>>}

\* SetEnableGrid(value): TypeError unless value is a bool or a 2-tuple,
\* then Redraw(); the grid takes no part in the ranges or the transform
SetEnableGrid(cv, size, value) ==
    IF Len(value) > 2 THEN [cv EXCEPT !.raised = TRUE] ELSE Redraw(cv, size)

\* the line styles of a pen setter: a key of LINESTYLE, and another string
PenStyles == {"--", "dashed"}

\* SetGridPen(ls, colour) -> _setPen: KeyError unless ls is a key of
\* LINESTYLE, then Redraw()
SetGridPen(cv, size, ls) ==
    IF ls \notin {"-", "--", ":", "__", "-."} THEN [cv EXCEPT !.raised = TRUE]
    ELSE Redraw(cv, size)

DoSetEnableGrid ==
    \E value \in GridValues :
        /\ Commit("SetEnableGrid", <<value>>,
                  SetEnableGrid(View, clientSize, value), Gesture)
        /\ UNCHANGED <<_xSpec, _ySpec, clientSize>>

DoSetGridPen ==
    \E ls \in PenStyles :
        /\ Commit("SetGridPen", <<ls>>, SetGridPen(View, clientSize, ls),
                  Gesture)
        /\ UNCHANGED <<_xSpec, _ySpec, clientSize>>

NextScale ==
    \/ DoDrawOnScale
    \/ DoSetLogScale
    \/ DoSetAbsScale
    \/ DoZoom
    \/ DoScrollRight
    \/ DoScrollUp
    \/ DoRedraw
    \/ DoReset
    \/ DoOnSize
    \/ DoSetEnableGrid
    \/ DoSetGridPen
    \/ DoOnMouseWheel
    \/ DoOnMouseLeftDown
    \/ DoOnMotion

SpecScale == InitScale /\ [][NextScale]_vars

(***************************************************************************)
(* _axisInterval as a pure function: the initial states hold the           *)
(* arguments, the action applies it.                                       *)
(***************************************************************************)
InitAxis ==
    /\ InitCanvas
    /\ budget = 0
    /\ \E spec \in AxisIntervalSpecs, lower \in AxisNums, upper \in AxisNums :
           /\ RLe(lower, upper)
           /\ ax = [spec |-> spec, lower |-> lower, upper |-> upper,
                    result |-> None]
    /\ call = CallIdle
    /\ box = BoxIdle

Apply_axisInterval ==
    /\ IsNone(ax.result)
    /\ ax' = [ax EXCEPT !.result = _axisInterval(ax.spec, ax.lower, ax.upper)]
    /\ UNCHANGED <<last_draw, _xSpec, _ySpec, _dragEnabled, _zoomEnabled,
                   hasCapture, _dragPoint0, _zoomPoint0, _zoomPoint1,
                   _pointScale, _pointShift, clientSize, _logScale, _absScale,
                   drawn, lastOp, budget,
                   call, box>>

NextAxis == Apply_axisInterval

SpecAxis == InitAxis /\ [][NextAxis]_vars

(***************************************************************************)
(* The linear tick generator _ticks(lower, upper, numticks), with          *)
(* _useScientificNotation at its default, False.  A tick is (t, label);    *)
(* the model keeps the position t.                                         *)
(***************************************************************************)
\* the first nine decimals of sqrt(2) - 1 and of sqrt(10) - 3; no rational
\* with a denominator of at most MaxNum lies between the truncation and the
\* root
SqrtTwoDecimals == 414213562

SqrtTenDecimals == 162277660

\* factor of grid = factor * 10.**power: _multiples holds (2, log10(2)) and
\* (5, log10(5)); the loop starts from factor 1 with error = fraction and
\* takes a multiple whose log10 is nearer to fraction = log10(m), 1 <= m < 10.
\* fraction <= |fraction - log10(2)| iff m < sqrt(2), and log10(5) is nearer
\* than log10(2) iff fraction > 1/2 iff m > sqrt(10).
TickFactor(m) ==
    IF m[1] < 2 * m[2] /\ Decimals(m[1] - m[2], m[2], 9) <= SqrtTwoDecimals
    THEN R(1)
    ELSE IF \/ m[1] < 3 * m[2]
            \/ /\ m[1] < 4 * m[2]
               /\ Decimals(m[1] - 3 * m[2], m[2], 9) <= SqrtTenDecimals
    THEN R(2)
    ELSE R(5)

\* ideal = (upper - lower) / float(numticks) for a number, otherwise
\* (upper - lower) / 7.
TickIdeal(lower, upper, numticks) ==
    IF numticks.kind = "number" THEN RDiv(RSub(upper, lower), numticks.lo)
    ELSE RDiv(RSub(upper, lower), R(7))

\* grid = ideal for a number, otherwise factor * 10.**power
TickGrid(ideal, numticks) ==
    IF numticks.kind = "number" THEN ideal
    ELSE RMul(TickFactor(Mantissa(ideal, FloorLog10(ideal))),
              Pow10(FloorLog10(ideal)))

\* t = -grid * np.floor(-lower / grid)
FirstTick(lower, grid) ==
    RNeg(RMul(grid, R(RFloor(RDiv(RNeg(lower), grid)))))

\* while t <= upper: ticks.append(t); t = t + grid
RECURSIVE TicksFrom(_, _, _)
TicksFrom(t, grid, upper) ==
    IF RLe(t, upper) THEN <<t>> \o TicksFrom(RAdd(t, grid), grid, upper)
    ELSE <<>>

\* _ticks: log10 of an ideal that is not a positive finite number is nan or
\* infinite, and int(power) raises on it
_ticks(lower, upper, numticks) ==
    IF ~RLt(R(0), TickIdeal(lower, upper, numticks)) THEN Raise
    ELSE Return([ticks |-> TicksFrom(
             FirstTick(lower, TickGrid(TickIdeal(lower, upper, numticks),
                                       numticks)),
             TickGrid(TickIdeal(lower, upper, numticks), numticks),
             upper)])

\* the axis specs _xticks / _yticks pass as numticks
TickSpecs == {SpecAuto, SpecMin, SpecNumber(1), SpecNumber(4), SpecNumber(5),
              SpecNumber(0), SpecNumber(-2)}

InitTicks ==
    /\ InitCanvas
    /\ budget = 0
    /\ ax = AxIdle
    /\ \E numticks \in TickSpecs, lower \in AxisNums, upper \in AxisNums :
           /\ RLe(lower, upper)
           /\ call = [fn |-> "_ticks",
                      arg |-> [numticks |-> numticks, lower |-> lower,
                               upper |-> upper],
                      result |-> Raise, done |-> FALSE]
    /\ box = BoxIdle

\* the cell after the function returned or raised
Called(result) ==
    /\ ~call.done
    /\ call' = [call EXCEPT !.result = result, !.done = TRUE]
    /\ UNCHANGED <<last_draw, _xSpec, _ySpec, _dragEnabled, _zoomEnabled,
                   hasCapture, _dragPoint0, _zoomPoint0, _zoomPoint1,
                   _pointScale, _pointShift, clientSize, _logScale, _absScale,
                   drawn, lastOp, budget,
                   ax, box>>

Apply_ticks ==
    /\ call.fn = "_ticks"
    /\ Called(_ticks(call.arg.lower, call.arg.upper, call.arg.numticks))

NextTicks == Apply_ticks

SpecTicks == InitTicks /\ [][NextTicks]_vars

(***************************************************************************)
(* PolyBoxPlot (src/wxplot/polyobjects.py).  A sample is the sequence of   *)
(* the y values given to the constructor; a value that is nan or infinite  *)
(* is NaN.  The summary _bpdata is the BPData tuple as a record.           *)
(***************************************************************************)
\* longest sample drawn from BoxValues
MaxSample == 4

BoxValues == {R(-10), R(0), R(20), NaN}

\* the sample of the documentation, and every short sample
Samples ==
    { <<R(1), R(2), R(3), R(4), R(5), R(6), R(7), R(8), R(9), R(100)>> }
        \cup UNION { [1 .. n -> BoxValues] : n \in 1 .. MaxSample }

\* points[0, 0]
BoxXpos == {R(1), R(-2)}

\* values of np.random.random_sample, in [0, 1)
RandomSamples == {R(0), <<9, 10>>}

\* _clean_data: data[~isnan(data)], then data[~isinf(data)]
_clean_data(data) == SelectSeq(data, LAMBDA v : ~IsNaN(v))

\* v put in its place in the ascending sequence s
RECURSIVE Insert(_, _)
Insert(v, s) ==
    IF s = <<>> THEN <<v>>
    ELSE IF RLe(v, Head(s)) THEN <<v>> \o s
    ELSE <<Head(s)>> \o Insert(v, Tail(s))

\* the order statistics of data
RECURSIVE Sorted(_)
Sorted(data) ==
    IF data = <<>> THEN <<>> ELSE Insert(Head(data), Sorted(Tail(data)))

InterpolatedLower(s, h) == s[h \div 100 + 1]

\* the value at the virtual index h / 100 (counted from 0) of the ascending
\* sequence s, linearly interpolated between its neighbours
Interpolated(s, h) ==
    IF h % 100 = 0 THEN s[h \div 100 + 1]
    ELSE RAdd(s[h \div 100 + 1],
              RMul(Norm(h % 100, 100),
                   RSub(s[h \div 100 + 2], s[h \div 100 + 1])))

\* np.percentile(data, q), method 'linear'
percentile(data, q) == Interpolated(Sorted(data), (Len(data) - 1) * q)

MedianOfLowerMiddle(s) == s[(Len(s) + 1) \div 2]

\* np.median(data): the middle order statistic, or the mean of the two
MedianOf(s) ==
    IF Len(s) % 2 = 1 THEN s[(Len(s) + 1) \div 2]
    ELSE RDiv(RAdd(s[Len(s) \div 2], s[Len(s) \div 2 + 1]), R(2))

median(data) == MedianOf(Sorted(data))

\* min and max of a non-empty ascending sequence restricted to a fence
\* data[data >= fence].min(), data[data <= fence].max()
LowestFrom(s, fence) == SelectSeq(s, LAMBDA v : RLe(fence, v))

HighestTo(s, fence) == SelectSeq(s, LAMBDA v : RLe(v, fence))

\* 1.5 * iqr
Fence(iqr) == RMul(<<3, 2>>, iqr)

BPData(min_data, low_whisker, q25, med, q75, high_whisker, max_data) ==
    [min |-> min_data, low_whisker |-> low_whisker, q25 |-> q25,
     median |-> med, q75 |-> q75, high_whisker |-> high_whisker,
     max |-> max_data]

\* calcBpData after the percentiles are taken; s is the sorted clean data
BpDataOf(s, q25, q75) ==
    IF LowestFrom(s, RSub(q25, Fence(RSub(q75, q25)))) = <<>>
       \/ HighestTo(s, RAdd(q75, Fence(RSub(q75, q25)))) = <<>>
    THEN Raise                       \* min / max of an empty array
    ELSE Return(BPData(
             s[1],
             Head(LowestFrom(s, RSub(q25, Fence(RSub(q75, q25))))),
             q25, MedianOf(s), q75,
             HighestTo(s, RAdd(q75, Fence(RSub(q75, q25))))[
                 Len(HighestTo(s, RAdd(q75, Fence(RSub(q75, q25)))))],
             s[Len(s)]))

\* calcBpData(data): np.min of an empty array raises ValueError
calcBpData(data) ==
    IF _clean_data(data) = <<>> THEN Raise
    ELSE BpDataOf(Sorted(_clean_data(data)),
                  percentile(_clean_data(data), 25),
                  percentile(_clean_data(data), 75))

calcOutliersInclusive(data, bpdata) ==
    SelectSeq(_clean_data(data),
              LAMBDA v : RLe(bpdata.high_whisker, v)
                         \/ RLe(v, bpdata.low_whisker))

\* calcOutliers(data), with self._bpdata = bpdata
calcOutliers(data, bpdata) ==
    SelectSeq(_clean_data(data),
              LAMBDA v : RLt(bpdata.high_whisker, v)
                         \/ RLt(v, bpdata.low_whisker))

\* the seven summary values in the order of the BPData tuple
BpTuple(bpdata) ==
    <<bpdata.min, bpdata.low_whisker, bpdata.q25, bpdata.median, bpdata.q75,
      bpdata.high_whisker, bpdata.max>>

\* [(xpos, x) for x in values]
AtXpos(xpos, values) == [i \in 1 .. Len(values) |-> <<xpos, values[i]>>]

\* self.jitter = 0.05 * random_sample(len(outliers)) + xpos - 0.025
JitterOf(random, xpos) ==
    [i \in 1 .. Len(random) |->
        RSub(RAdd(RMul(<<1, 20>>, random[i]), xpos), <<1, 40>>)]

\* PolyBoxPlot.__init__ after calcBpData returned bpdata; random is what
\* np.random.random_sample returns.  _PolyPoints.__init__ starts with the
\* identity transform and scaled = points.
BoxBuilt(xpos, data, bpdata, random) ==
    [state |-> "built", box_width |-> Half, xpos |-> xpos, data |-> data,
     _bpdata |-> bpdata, _outliers |-> calcOutliers(data, bpdata),
     jitter |-> JitterOf(random, xpos),
     _points |-> AtXpos(xpos, BpTuple(bpdata) \o calcOutliers(data, bpdata)),
     scaled |-> AtXpos(xpos, BpTuple(bpdata) \o calcOutliers(data, bpdata)),
     currentScale |-> Pair(1, 1), currentShift |-> Pair(0, 0),
     jitter0 |-> JitterOf(random, xpos)]   \* ghost: the constructor's jitter

\* a constructor call that raised leaves no object
BoxFailed(xpos, data) == [state |-> "failed", xpos |-> xpos, data |-> data]

\* PolyBoxPlot.boundingBox
Box_boundingBox(b) ==
    [minXY |-> <<RSub(b.xpos, RDiv(b.box_width, R(2))),
                 RMul(b._bpdata.min, <<19, 20>>)>>,
     maxXY |-> <<RAdd(b.xpos, RDiv(b.box_width, R(2))),
                 RMul(b._bpdata.max, <<21, 20>>)>>]

\* scale * data + shift for a sequence of points
ScaledPoints(data, scale, shift) ==
    [i \in 1 .. Len(data) |-> VAdd(VMul(scale, data[i]), shift)]

\* _PolyPoints.scaleAndShift
Box_scaleAndShift(b, scale, shift) ==
    IF Len(b._points) = 0 THEN b
    ELSE [b EXCEPT !.scaled = ScaledPoints(b._points, scale, shift),
                   !.currentScale = scale, !.currentShift = shift]

\* the square of sqrt(dx^2 + dy^2)
Dist2(p, q) ==
    RAdd(RMul(RSub(p[1], q[1]), RSub(p[1], q[1])),
         RMul(RSub(p[2], q[2]), RSub(p[2], q[2])))

\* np.argmin: the first index of the least distance
ArgMin(d) ==
    CHOOSE i \in 1 .. Len(d) :
        /\ \A j \in 1 .. Len(d) : RLe(d[i], d[j])
        /\ \A j \in 1 .. i - 1 : RLt(d[i], d[j])

Distances(p, pxy) == [i \in 1 .. Len(p) |-> Dist2(p[i], pxy)]

\* [pntIndex, points[pntIndex], scaled[pntIndex] / _pointSize, dist], with
\* pntIndex counted from 1, _pointSize = (1, 1) and the distance squared
ClosestEntry(b, d) ==
    [pntIndex |-> ArgMin(d), pointXY |-> b._points[ArgMin(d)],
     scaledXY |-> b.scaled[ArgMin(d)], dist |-> d[ArgMin(d)]]

\* PolyBoxPlot.getClosestPoint
Box_getClosestPoint(b, pntXY, pointScaled) ==
    IF pointScaled
    THEN ClosestEntry(b, Distances(b.scaled,
                          VAdd(VMul(b.currentScale, pntXY), b.currentShift)))
    ELSE ClosestEntry(b, Distances(b._points, pntXY))

Box_draw_outliers_Fresh(b) ==
    ScaledPoints([i \in 1 .. Len(b._outliers) |-> <<b.xpos, b._outliers[i]>>],
                 b.currentScale, b.currentShift)

\* _draw_outliers: the points (jitter, outlier) scaled and shifted
Box_draw_outliers(b) ==
    ScaledPoints([i \in 1 .. Len(b._outliers) |->
                     <<b.jitter[i], b._outliers[i]>>],
                 b.currentScale, b.currentShift)

\* int(x): truncation towards zero
Trunc(a) == IF a[1] >= 0 THEN a[1] \div a[2] ELSE -((-a[1]) \div a[2])

\* _draw_whisker: the line from the low to the high whisker
Box_draw_whisker(b) ==
    ScaledPoints(<< <<b.xpos, b._bpdata.low_whisker>>,
                    <<b.xpos, b._bpdata.high_whisker>> >>,
                 b.currentScale, b.currentShift)

\* _draw_iqr_box: (left, top, width, height) of the scaled corners p
IqrRect(p) ==
    <<Trunc(p[1][1]), Trunc(p[1][2]), Trunc(RSub(p[2][1], p[1][1])),
      Trunc(RSub(p[2][2], p[1][2]))>>

Box_draw_iqr_box(b) ==
    IqrRect(ScaledPoints(
        << <<RSub(b.xpos, RDiv(b.box_width, R(2))), b._bpdata.q75>>,
           <<RAdd(b.xpos, RDiv(b.box_width, R(2))), b._bpdata.q25>> >>,
        b.currentScale, b.currentShift))

\* _draw_median
Box_draw_median(b) ==
    ScaledPoints(
        << <<RSub(b.xpos, RDiv(b.box_width, R(2))), b._bpdata.median>>,
           <<RAdd(b.xpos, RDiv(b.box_width, R(2))), b._bpdata.median>> >>,
        b.currentScale, b.currentShift)

\* _draw_whisker_ends: the cap at height y, 0.2 box widths to either side
WhiskerEnd(b, y) ==
    ScaledPoints(
        << <<RSub(b.xpos, RMul(b.box_width, <<1, 5>>)), y>>,
           <<RAdd(b.xpos, RMul(b.box_width, <<1, 5>>)), y>> >>,
        b.currentScale, b.currentShift)

Box_draw_whisker_ends(b) ==
    [fence_top |-> WhiskerEnd(b, b._bpdata.high_whisker),
     fence_bottom |-> WhiskerEnd(b, b._bpdata.low_whisker)]

\* PolyBoxPlot.draw: what is handed to the device context
Box_draw(b) ==
    [whisker |-> Box_draw_whisker(b), iqr_box |-> Box_draw_iqr_box(b),
     median |-> Box_draw_median(b),
     whisker_ends |-> Box_draw_whisker_ends(b),
     outliers |-> Box_draw_outliers(b)]

\* arguments of the methods
BoxScales == {Pair(1, 1), Pair(2, -1)}

BoxShifts == {Pair(5, 6)}

BoxQueries == {Pair(0, 0), Pair(1, 8)}

InitBox ==
    /\ InitCanvas
    /\ budget = 0
    /\ ax = AxIdle
    /\ call = CallIdle
    /\ \E xpos \in BoxXpos, data \in Samples :
           box = [state |-> "new", xpos |-> xpos, data |-> data]

\* a method of the object was called: the cell holds what it returned
BoxCalled(fn, arg, result, b) ==
    /\ call' = [fn |-> fn, arg |-> arg, result |-> result, done |-> TRUE]
    /\ box' = b
    /\ UNCHANGED <<last_draw, _xSpec, _ySpec, _dragEnabled, _zoomEnabled,
                   hasCapture, _dragPoint0, _zoomPoint0, _zoomPoint1,
                   _pointScale, _pointShift, clientSize, _logScale, _absScale,
                   drawn, lastOp, budget,
                   ax>>

\* PolyBoxPlot(points)
BoxConstruct ==
    /\ box.state = "new"
    /\ IF calcBpData(box.data).raised
       THEN BoxCalled("__init__", [points |-> <<box.xpos, box.data>>], Raise,
                      BoxFailed(box.xpos, box.data))
       ELSE \E random \in
                [1 .. Len(calcOutliers(box.data, calcBpData(box.data).value))
                    -> RandomSamples] :
                BoxCalled("__init__", [points |-> <<box.xpos, box.data>>],
                          Return(NoValue),
                          BoxBuilt(box.xpos, box.data,
                                   calcBpData(box.data).value, random))

BoxBoundingBox ==
    /\ box.state = "built"
    /\ BoxCalled("boundingBox", NoValue, Return(Box_boundingBox(box)), box)

BoxGetClosestPoint ==
    /\ box.state = "built"
    /\ \E pntXY \in BoxQueries, pointScaled \in BOOLEAN :
           BoxCalled("getClosestPoint",
                     [pntXY |-> pntXY, pointScaled |-> pointScaled],
                     Return(Box_getClosestPoint(box, pntXY, pointScaled)), box)

BoxScaleAndShift ==
    /\ box.state = "built"
    /\ \E scale \in BoxScales, shift \in BoxShifts :
           BoxCalled("scaleAndShift", [scale |-> scale, shift |-> shift],
                     Return(NoValue),
                     Box_scaleAndShift(box, scale, shift))

BoxDraw ==
    /\ box.state = "built"
    /\ BoxCalled("draw", NoValue, Return(Box_draw(box)), box)

NextBox ==
    \/ BoxConstruct
    \/ BoxBoundingBox
    \/ BoxGetClosestPoint
    \/ BoxScaleAndShift
    \/ BoxDraw

SpecBox == InitBox /\ [][NextBox]_vars

(***************************************************************************)
(* The closest point: PlotCanvas.GetClosestPoints and GetClosestPoint over *)
(* the objects of the last drawn graphics.  An object is a box plot or a   *)
(* series without points; the draw scaled and shifted every object.        *)
(***************************************************************************)
MaxSeries == 3

\* a series built from no points
EmptySeries ==
    [state |-> "built", _points |-> <<>>, scaled |-> <<>>,
     currentScale |-> Pair(1, 1), currentShift |-> Pair(0, 0)]

\* PolyBoxPlot(points) of a sample that has a summary
BoxOf(xpos, data) ==
    BoxBuilt(xpos, data, calcBpData(data).value,
             [i \in 1 .. Len(calcOutliers(data, calcBpData(data).value))
                 |-> R(0)])

\* the objects a graphics is made of, each with its legend
PlotObjects ==
    { [legend |-> "empty", obj |-> EmptySeries],
      [legend |-> "a", obj |-> BoxOf(R(1), <<R(0)>>)],
      [legend |-> "b", obj |-> BoxOf(R(-2), <<R(0)>>)],
      [legend |-> "c", obj |-> BoxOf(R(1), <<R(0), R(20)>>)] }

\* the object lists of at most n objects
RECURSIVE ObjectLists(_)
ObjectLists(n) ==
    IF n = 0 THEN {<<>>}
    ELSE ObjectLists(n - 1)
         \cup {Append(l, o) : l \in ObjectLists(n - 1), o \in PlotObjects}

\* graphics.scaleAndShift(scale, shift) of _Draw: every object is scaled
DrawnObjects(objects, scale, shift) ==
    [i \in 1 .. Len(objects) |->
        [objects[i] EXCEPT !.obj = Box_scaleAndShift(@, scale, shift)]]

\* (graphics, xAxis, yAxis) as the draw of the objects l leaves it
LastDrawOf(l, scale, shift) ==
    <<DrawnObjects(l, scale, shift), Pair(-10, 10), Pair(-10, 30)>>

ClosestQueries == {Pair(0, 0), <<<<-1, 2>>, R(0)>>, Pair(1, 8)}

\* [i, obj.getLegend()] + obj.getClosestPoint(pntXY, pointScaled), with the
\* curve number counted from 0
CurveEntry(i, legend, e) ==
    [curveNum |-> i - 1, legend |-> legend, pntIndex |-> e.pntIndex,
     pointXY |-> e.pointXY, scaledXY |-> e.scaledXY, dist |-> e.dist]

\* the loop of GetClosestPoints from object i on
RECURSIVE ClosestFrom(_, _, _, _)
ClosestFrom(graphics, i, pntXY, pointScaled) ==
    IF i > Len(graphics) THEN <<>>
    ELSE IF Len(graphics[i].obj._points) = 0
    THEN ClosestFrom(graphics, i + 1, pntXY, pointScaled)
    ELSE <<CurveEntry(i, graphics[i].legend,
                      Box_getClosestPoint(graphics[i].obj, pntXY,
                                          pointScaled))>>
         \o ClosestFrom(graphics, i + 1, pntXY, pointScaled)

GetClosestPoints(pntXY, pointScaled) ==
    IF IsNone(last_draw) THEN <<>>
    ELSE ClosestFrom(last_draw[1], 1, pntXY, pointScaled)

LastLeast(closestPts) ==
    CHOOSE i \in 1 .. Len(closestPts) :
        /\ \A j \in 1 .. Len(closestPts) :
               RLe(closestPts[i].dist, closestPts[j].dist)
        /\ \A j \in i + 1 .. Len(closestPts) :
               RLt(closestPts[i].dist, closestPts[j].dist)

\* dists.index(min(dists)): the first entry of the least distance
FirstLeast(closestPts) ==
    CHOOSE i \in 1 .. Len(closestPts) :
        /\ \A j \in 1 .. Len(closestPts) :
               RLe(closestPts[i].dist, closestPts[j].dist)
        /\ \A j \in 1 .. i - 1 :
               RLt(closestPts[i].dist, closestPts[j].dist)

\* the list GetClosestPoint returns: empty, or the six fields of one entry
NoCurve == [found |-> FALSE]

FoundCurve(e) ==
    [found |-> TRUE, curveNum |-> e.curveNum, legend |-> e.legend,
     pntIndex |-> e.pntIndex, pointXY |-> e.pointXY,
     scaledXY |-> e.scaledXY, dist |-> e.dist]

ClosestOf(closestPts) ==
    IF closestPts = <<>> THEN NoCurve
    ELSE FoundCurve(closestPts[FirstLeast(closestPts)])

GetClosestPoint(pntXY, pointScaled) ==
    ClosestOf(GetClosestPoints(pntXY, pointScaled))

\* a canvas without a plot, or one after the draw of a graphics of at most
\* MaxSeries objects, and the query GetClosestPoint is called with
InitClosest ==
    /\ InitWidget
    /\ \/ /\ last_draw = None
          /\ _pointScale = Pair(1, 1)
          /\ _pointShift = Pair(0, 0)
          /\ drawn = FALSE
       \/ \E l \in ObjectLists(MaxSeries), scale \in BoxScales,
             shift \in BoxShifts :
              /\ last_draw = LastDrawOf(l, scale, shift)
              /\ _pointScale = scale
              /\ _pointShift = shift
              /\ drawn = TRUE
    /\ budget = 0
    /\ ax = AxIdle
    /\ box = BoxIdle
    /\ \E pntXY \in ClosestQueries, pointScaled \in BOOLEAN :
           call = [fn |-> "GetClosestPoint",
                   arg |-> [pntXY |-> pntXY, pointScaled |-> pointScaled],
                   result |-> Raise, done |-> FALSE]

ApplyGetClosestPoint ==
    /\ call.fn = "GetClosestPoint"
    /\ ~call.done
    /\ Called(Return(GetClosestPoint(call.arg.pntXY, call.arg.pointScaled)))

NextClosest == ApplyGetClosestPoint

SpecClosest == InitClosest /\ [][NextClosest]_vars

(***************************************************************************)
(* The connectors of a line series: PolyLine._path and the loop of         *)
(* PolyLine._draw over the consecutive scaled points.                      *)
(***************************************************************************)
MaxLinePoints == 3

\* scaled points: screen coordinates, whole and fractional, of either sign
PathCoords ==
    { Pair(0, 0), Pair(1, 1), <<<<1, 2>>, <<3, 2>>>>,
      <<<<-1, 2>>, <<5, 2>>>>, <<R(3), <<-7, 3>>>>, Pair(4, 1) }

DrawStyles ==
    {"line", "steps-pre", "steps-post", "steps-mid-x", "steps-mid-y",
     "steps"}

IntPointsFloor(line) ==
    [i \in 1 .. Len(line) |-> <<RFloor(line[i][1]), RFloor(line[i][2])>>]

\* (int(p[0]), int(p[1])) for p in line
IntPoints(line) ==
    [i \in 1 .. Len(line) |-> <<Trunc(line[i][1]), Trunc(line[i][2])>>]

\* ((coord2 - coord1) / 2) + coord1 for one coordinate
MidOf(c1, c2) == RAdd(RDiv(RSub(c2, c1), R(2)), c1)

\* the list line of _path before the conversion, None for the else branch
PathLine(coord1, coord2, drawstyle) ==
    CASE drawstyle = "line" -> <<coord1, coord2>>
      [] drawstyle = "steps-pre" ->
             <<coord1, <<coord1[1], coord2[2]>>, coord2>>
      [] drawstyle = "steps-post" ->
             <<coord1, <<coord2[1], coord1[2]>>, coord2>>
      [] drawstyle = "steps-mid-x" ->
             <<coord1, <<MidOf(coord1[1], coord2[1]), coord1[2]>>,
               <<MidOf(coord1[1], coord2[1]), coord2[2]>>, coord2>>
      [] drawstyle = "steps-mid-y" ->
             <<coord1, <<coord1[1], MidOf(coord1[2], coord2[2])>>,
               <<coord2[1], MidOf(coord1[2], coord2[2])>>, coord2>>
      [] OTHER -> None

\* PolyLine._path: the line handed to dc.DrawLines, or ValueError
_path(coord1, coord2, drawstyle) ==
    IF IsNone(PathLine(coord1, coord2, drawstyle)) THEN Raise
    ELSE Return([line |-> IntPoints(PathLine(coord1, coord2, drawstyle))])

\* the loop of _draw from pair i on; drawn: the lines drawn so far
RECURSIVE DrawFrom(_, _, _, _)
DrawFrom(scaled, i, drawstyle, drawn_lines) ==
    IF i >= Len(scaled) THEN Return([lines |-> drawn_lines])
    ELSE IF _path(scaled[i], scaled[i + 1], drawstyle).raised THEN Raise
    ELSE DrawFrom(scaled, i + 1, drawstyle,
                  Append(drawn_lines,
                         _path(scaled[i], scaled[i + 1], drawstyle)
                             .value.line))

\* PolyLine._draw(dc, printerScale, None)
PolyLine_draw(scaled, drawstyle) == DrawFrom(scaled, 1, drawstyle, <<>>)

\* the scaled points of a series of at most n points
RECURSIVE PointLists(_)
PointLists(n) ==
    IF n = 0 THEN {<<>>}
    ELSE PointLists(n - 1)
         \cup {Append(l, c) : l \in PointLists(n - 1), c \in PathCoords}

InitPath ==
    /\ InitCanvas
    /\ budget = 0
    /\ ax = AxIdle
    /\ box = BoxIdle
    /\ \/ \E coord1 \in PathCoords, coord2 \in PathCoords,
             drawstyle \in DrawStyles :
              call = [fn |-> "_path",
                      arg |-> [coord1 |-> coord1, coord2 |-> coord2,
                               drawstyle |-> drawstyle],
                      result |-> Raise, done |-> FALSE]
       \/ \E scaled \in PointLists(MaxLinePoints), drawstyle \in DrawStyles :
              call = [fn |-> "_draw",
                      arg |-> [scaled |-> scaled, drawstyle |-> drawstyle],
                      result |-> Raise, done |-> FALSE]

Apply_path ==
    /\ call.fn = "_path"
    /\ Called(_path(call.arg.coord1, call.arg.coord2, call.arg.drawstyle))

Apply_draw ==
    /\ call.fn = "_draw"
    /\ Called(PolyLine_draw(call.arg.scaled, call.arg.drawstyle))

NextPath ==
    \/ Apply_path
    \/ Apply_draw

SpecPath == InitPath /\ [][NextPath]_vars

(***************************************************************************)
(* The ticks of a log axis: PlotCanvas._logticks(lower, upper), lower and  *)
(* upper being exponents of ten.  The loop variable t is kept as           *)
(* m * 10^e with m in 1 .. 9, a tick position log10(t) as the pair of m    *)
(* and e, and a label '%de%d' as the pair of its two numbers, '' as None.  *)
(***************************************************************************)
MaxLogExp == 13

\* np.ceil of a number
RCeil(a) == -((-a[1]) \div a[2])

RECURSIVE IPow(_, _)
IPow(m, q) == IF q = 0 THEN 1 ELSE m * IPow(m, q - 1)

\* 10^x <= m for 0 <= x < 1, x = p / q: 10^p <= m^q
TenToLe(x, m) == IPow(10, x[1]) <= IPow(m, x[2])

\* m <= 10^x for 0 <= x < 1
LeTenTo(m, x) == IPow(m, x[2]) <= IPow(10, x[1])

\* np.ceil(np.power(10, lower) / mag): the least whole m with 10^f <= m,
\* f the fractional part of lower
FirstMantissa(f) == CHOOSE m \in 1 .. 10 :
    /\ TenToLe(f, m)
    /\ \A k \in 1 .. m - 1 : ~TenToLe(f, k)

\* t <= pow(10, upper) for t = m * 10^e
TickInRange(m, e, upper) ==
    IF RLe(R(e + 1), upper) THEN TRUE
    ELSE IF RLt(upper, R(e)) THEN FALSE
    ELSE LeTenTo(m, RSub(upper, R(e)))

\* the label of the tick at t = m * 10^e
TickLabel(m, e, majortick, span) ==
    IF majortick # e THEN <<1, e>>
    ELSE IF RLt(span, R(2)) THEN <<m, majortick>>
    ELSE None

LogTick(m, e, label) == [m |-> m, e |-> e, label |-> label]

\* the while loop for a span of at most six decades: t += 10^floor(log10(t))
RECURSIVE MinorTicksFrom(_, _, _, _, _, _)
MinorTicksFrom(m, e, majortick, span, upper, ticks) ==
    IF ~TickInRange(m, e, upper) THEN ticks
    ELSE MinorTicksFrom(IF m = 9 THEN 1 ELSE m + 1,
                        IF m = 9 THEN e + 1 ELSE e, e, span, upper,
                        Append(ticks,
                               LogTick(m, e,
                                       TickLabel(m, e, majortick, span))))

\* the while loop for a span above six decades: t += t * base - t with
\* base = 10^decades
RECURSIVE DecadeTicksFrom(_, _, _, _, _, _)
DecadeTicksFrom(e, majortick, decades, span, upper, ticks) ==
    IF ~TickInRange(1, e, upper) THEN ticks
    ELSE DecadeTicksFrom(e + decades, e, decades, span, upper,
                         Append(ticks,
                                LogTick(1, e,
                                        TickLabel(1, e, majortick, span))))

\* the ticks the loop collected
LogTicksOf(lower, upper) ==
    IF RLt(R(6), RSub(upper, lower))
    THEN DecadeTicksFrom(RCeil(lower), RFloor(lower),
                         RFloor(RDiv(RSub(upper, lower), R(6))),
                         RSub(upper, lower), upper, <<>>)
    ELSE IF FirstMantissa(RSub(lower, R(RFloor(lower)))) = 10
    THEN MinorTicksFrom(1, RFloor(lower) + 1, RFloor(lower),
                        RSub(upper, lower), upper, <<>>)
    ELSE MinorTicksFrom(FirstMantissa(RSub(lower, R(RFloor(lower)))),
                        RFloor(lower), RFloor(lower), RSub(upper, lower),
                        upper, <<>>)

\* if len(ticks) == 0: ticks = [(0, '')]
OrZeroTick(ticks) ==
    IF Len(ticks) = 0 THEN <<LogTick(1, 0, None)>> ELSE ticks

_logticks(lower, upper) == Return([ticks |-> OrZeroTick(LogTicksOf(lower, upper))])

\* the exponents of the two ends of a log axis
LogExps ==
    {R(n) : n \in -1 .. MaxLogExp}
    \cup {<<-1, 2>>, <<1, 2>>, <<3, 4>>, <<5, 2>>, <<13, 2>>, <<23, 2>>}

InitLogTicks ==
    /\ InitCanvas
    /\ budget = 0
    /\ ax = AxIdle
    /\ box = BoxIdle
    /\ \E lower \in LogExps, upper \in LogExps :
           /\ RLe(lower, upper)
           /\ call = [fn |-> "_logticks",
                      arg |-> [lower |-> lower, upper |-> upper],
                      result |-> Raise, done |-> FALSE]

Apply_logticks ==
    /\ call.fn = "_logticks"
    /\ Called(_logticks(call.arg.lower, call.arg.upper))

NextLogTicks == Apply_logticks

SpecLogTicks == InitLogTicks /\ [][NextLogTicks]_vars

(***************************************************************************)
(* PolyHistogram(hist, binspec).  The object under construction is kept in *)
(* the cell box.  pairwise comes from wx.lib.plot.utils, which is not part *)
(* of this repository: it hands back the pairs (s0, s1), (s1, s2), ...     *)
(* either as a list or as an iterator, and np.array makes an n x 2 array   *)
(* only of a non-empty list.                                               *)
(***************************************************************************)
MaxBins == 3

HistCounts == {R(1), R(3)}

HistEdges == {R(0), R(1), R(2), <<9, 2>>}

\* the hist arguments: at most MaxBins counts
HistArgs == UNION {[1 .. n -> HistCounts] : n \in 0 .. MaxBins}

\* the binspec arguments: at most MaxBins + 1 ascending edges
BinspecArgs ==
    {b \in UNION {[1 .. n -> HistEdges] : n \in 0 .. MaxBins + 1} :
        \A i \in 1 .. Len(b) - 1 : RLt(b[i], b[i + 1])}

\* pairwise(binspec) as a list
pairwise(binspec) ==
    [i \in 1 .. (IF Len(binspec) = 0 THEN 0 ELSE Len(binspec) - 1) |->
        <<binspec[i], binspec[i + 1]>>]

BarCenterNoHalving(bins) == [i \in 1 .. Len(bins) |-> bins[i][1]]

\* bins[:, 0] + (bins[:, 1] - bins[:, 0]) / 2
BarCenter(bins) ==
    [i \in 1 .. Len(bins) |->
        RAdd(bins[i][1], RDiv(RSub(bins[i][2], bins[i][1]), R(2)))]

\* np.asarray((bar_center_x, hist)).T
HistPoints(bar_center_x, hist) ==
    [i \in 1 .. Len(hist) |-> <<bar_center_x[i], hist[i]>>]

\* the object when the length check raised: no attribute was set
HistRefused == [state |-> "failed", attrs |-> {}]

\* the object when bins[:, 0] raised: hist and binspec were set
HistBroken(hist, binspec) ==
    [state |-> "failed", attrs |-> {"hist", "binspec", "bins"},
     hist |-> hist, binspec |-> binspec]

\* the object after PolyPoints.__init__
HistBuilt(hist, binspec, bins) ==
    [state |-> "built", attrs |-> {"hist", "binspec", "bins", "_points"},
     hist |-> hist, binspec |-> binspec, bins |-> bins,
     _points |-> HistPoints(BarCenter(bins), hist),
     scaled |-> HistPoints(BarCenter(bins), hist),
     currentScale |-> Pair(1, 1), currentShift |-> Pair(0, 0)]

\* PolyHistogram.__init__; asList: pairwise handed back a list
PolyHistogram(hist, binspec, asList) ==
    IF Len(binspec) # Len(hist) + 1 THEN HistRefused
    ELSE IF ~asList \/ Len(pairwise(binspec)) = 0
    THEN HistBroken(hist, binspec)
    ELSE HistBuilt(hist, binspec, pairwise(binspec))

InitHist ==
    /\ InitCanvas
    /\ budget = 0
    /\ ax = AxIdle
    /\ box = BoxIdle
    /\ \E hist \in HistArgs, binspec \in BinspecArgs :
           call = [fn |-> "PolyHistogram",
                   arg |-> [hist |-> hist, binspec |-> binspec],
                   result |-> Raise, done |-> FALSE]

HistConstruct ==
    /\ call.fn = "PolyHistogram"
    /\ ~call.done
    /\ \E asList \in BOOLEAN :
           BoxCalled("PolyHistogram", call.arg,
                     IF PolyHistogram(call.arg.hist, call.arg.binspec,
                                      asList).state = "built"
                     THEN Return(NoValue) ELSE Raise,
                     PolyHistogram(call.arg.hist, call.arg.binspec, asList))

NextHist == HistConstruct

SpecHist == InitHist /\ [][NextHist]_vars

(***************************************************************************)
(* Properties.  PreView and PreGesture are the view and the gestures the   *)
(* last handler was called in.                                             *)
(***************************************************************************)
PreView == lastOp.pre.view

PreGesture == lastOp.pre.gs

\* a plot is present and both of its axis ranges are defined
HasRanges(ld) ==
    IF IsNone(ld) THEN FALSE ELSE ~IsNone(ld[2]) /\ ~IsNone(ld[3])

Width(axis) == RSub(axis[2], axis[1])

ZeroWidth(axis) == IF IsNone(axis) THEN FALSE ELSE REq(axis[1], axis[2])

\* equal numbers, pairs of numbers; a number outside the window the model
\* represents is not compared
SameOrFar(a, b) == IsFar(a) \/ IsFar(b) \/ a = b

SamePairOrFar(u, v) == SameOrFar(u[1], v[1]) /\ SameOrFar(u[2], v[2])

\* the last handler returned without an exception and left the snapshot
\* and the transform as they were
SilentNoOp ==
    /\ ~lastOp.raised
    /\ last_draw = PreView.last_draw
    /\ _pointScale = PreView.scale
    /\ _pointShift = PreView.shift

\* C1: the drag gesture and the zoom-drag gesture are never active at the
\* same time: _dragEnabled and _zoomEnabled are never both True.
C1_GesturesExclusive == ~(_dragEnabled /\ _zoomEnabled)

\* every bound b of a zoomed axis becomes c + ratio * (b - c)
ZoomedBound(b, c, ratio) == RAdd(c, RMul(ratio, RSub(b, c)))

ZoomedRange(axis, c, ratio) ==
    <<ZoomedBound(axis[1], c, ratio), ZoomedBound(axis[2], c, ratio)>>

\* C2: Zoom(center, ratio) with a plot present replaces every bound b of
\* each axis range by c + ratio * (b - c), c the centre coordinate on that
\* axis, so the new width is ratio times the old width; the graphics stay.
\* Zoom((0, 0), (0.5, 0.5)) on x: (-10, 10), y: (-10, 10) gives
\* x: (-5, 5), y: (-5, 5).
C2_ZoomFormula ==
    /\ (lastOp.op = "Zoom" /\ HasRanges(PreView.last_draw)) =>
           /\ HasRanges(last_draw)
           /\ last_draw[1] = PreView.last_draw[1]
           /\ SamePairOrFar(last_draw[2],
                            ZoomedRange(PreView.last_draw[2],
                                        lastOp.arg[1][1], lastOp.arg[2][1]))
           /\ SamePairOrFar(last_draw[3],
                            ZoomedRange(PreView.last_draw[3],
                                        lastOp.arg[1][2], lastOp.arg[2][2]))
           /\ SameOrFar(Width(last_draw[2]),
                        RMul(lastOp.arg[2][1], Width(PreView.last_draw[2])))
           /\ SameOrFar(Width(last_draw[3]),
                        RMul(lastOp.arg[2][2], Width(PreView.last_draw[3])))
    /\ (/\ lastOp.op = "Zoom"
        /\ lastOp.arg = <<Pair(0, 0), <<Half, Half>>>>
        /\ HasRanges(PreView.last_draw)
        /\ PreView.last_draw[2] = Pair(-10, 10)
        /\ PreView.last_draw[3] = Pair(-10, 10)) =>
           /\ last_draw[2] = Pair(-5, 5)
           /\ last_draw[3] = Pair(-5, 5)

\* C2 witness: Zoom about (5, -5) by (2, 1) of x: (-10, 10), y: (-10, 10)
\* left x: (-25, 15), y: (-10, 10)
C2_ZoomedOffCentre ==
    /\ lastOp.op = "Zoom"
    /\ lastOp.arg = <<Pair(5, -5), Pair(2, 1)>>
    /\ HasRanges(PreView.last_draw)
    /\ PreView.last_draw[2] = Pair(-10, 10)
    /\ PreView.last_draw[3] = Pair(-10, 10)
    /\ HasRanges(last_draw)
    /\ last_draw[2] = Pair(-25, 15)
    /\ last_draw[3] = Pair(-10, 10)

\* C3: Reset() on a drawn plot makes the range of both axes equal to the
\* max range, the one _axisInterval derives from the bounding box of the
\* graphics and the axis spec; a second Reset() changes nothing; Reset()
\* with no plot leaves last_draw absent.
C3_ResetRestoresMaxRange ==
    /\ (lastOp.op = "Reset" /\ ~IsNone(PreView.last_draw)) =>
           /\ HasRanges(last_draw)
           /\ last_draw[1] = PreView.last_draw[1]
           /\ last_draw[2] = _getXMaxRange(last_draw[1])
           /\ last_draw[3] = _getYMaxRange(last_draw[1])
           /\ Reset(View, clientSize).last_draw = last_draw
    /\ (lastOp.op = "Reset" /\ IsNone(PreView.last_draw)) => IsNone(last_draw)

\* C3, where no axis spec is a list: Reset() on a drawn plot restores the
\* max range of both axes, a second Reset() changes nothing, and Reset()
\* with no plot leaves last_draw absent.
C3_ResetRestoresUnlessListSpec ==
    (_xSpec.kind # "list" /\ _ySpec.kind # "list") => C3_ResetRestoresMaxRange

\* C3 witness: Reset() of a view zoomed to x: (-5, 5) restored x: (-10, 10)
C3_ResetAfterZoom ==
    /\ lastOp.op = "Reset"
    /\ HasRanges(PreView.last_draw)
    /\ HasRanges(last_draw)
    /\ PreView.last_draw[2] = Pair(-5, 5)
    /\ last_draw[2] = Pair(-10, 10)
    /\ last_draw[2] = _getXMaxRange(last_draw[1])
    /\ last_draw[3] = _getYMaxRange(last_draw[1])

\* C4: whenever a plot is present, the stored range of each axis has
\* min <= max.
C4_RangesAscending ==
    HasRanges(last_draw) =>
        /\ RLe(last_draw[2][1], last_draw[2][2])
        /\ RLe(last_draw[3][1], last_draw[3][2])

\* C5: a draw request whose x or y range has zero width is a silent no-op
\* that leaves the last_draw snapshot unchanged and never reaches the scale
\* computation, both for a direct Draw(graphics, xAxis, yAxis) and for a
\* zero-width range produced by a zoom step.
C5_ZeroWidthIsNoOp ==
    /\ (/\ lastOp.op = "Draw"
        /\ (ZeroWidth(lastOp.arg[2]) \/ ZeroWidth(lastOp.arg[3]))) =>
           SilentNoOp
    /\ (/\ lastOp.op = "Zoom"
        /\ HasRanges(PreView.last_draw)
        /\ \/ ZeroWidth(ZoomedRange(PreView.last_draw[2],
                                    lastOp.arg[1][1], lastOp.arg[2][1]))
           \/ ZeroWidth(ZoomedRange(PreView.last_draw[3],
                                    lastOp.arg[1][2], lastOp.arg[2][2]))) =>
           SilentNoOp

\* C6: last_draw is present if and only if a draw has completed since the
\* canvas was created or since the last Clear(); Clear() leaves last_draw
\* absent, and no operation other than a draw makes it present.
C6_PresentIffDrawn ==
    /\ ~IsNone(last_draw) <=> drawn
    /\ lastOp.op = "Clear" => IsNone(last_draw)
    /\ (IsNone(PreView.last_draw) /\ ~IsNone(last_draw)) => lastOp.op = "Draw"

\* the cursor data point the last mouse handler computed: _getXY(event)
\* under the transform it was called in
PreXY ==
    PositionScreenToUser_Of(PreView.scale, PreView.shift,
                            GetPosition(lastOp.arg[1], lastOp.pre.size))

\* the motion update of the drag gesture for the cursor data point xy
DragUpdated(xy) ==
    /\ HasRanges(last_draw)
    /\ last_draw[2] = AxisShift(PreView.last_draw[2],
                                RNeg(VSub(xy, PreGesture.dragPoint0)[1]))
    /\ last_draw[3] = AxisShift(PreView.last_draw[3],
                                RNeg(VSub(xy, PreGesture.dragPoint0)[2]))
    /\ Width(last_draw[2]) = Width(PreView.last_draw[2])
    /\ Width(last_draw[3]) = Width(PreView.last_draw[3])
    /\ _dragPoint0 = xy

\* C7: while the drag gesture is active and a plot is present, a motion
\* update computes delta = cursor data point - anchor, replaces the x range
\* by x range - delta.x and the y range by y range - delta.y, both widths
\* unchanged, and then sets the anchor to the cursor data point.
C7_DragMotionShifts ==
    (/\ lastOp.op = "OnMotion"
     /\ PreGesture.drag
     /\ HasRanges(PreView.last_draw)) => DragUpdated(PreXY)

\* C7, where the zoom-drag gesture is not active as well and the redraw
\* does not raise: the motion update shifts both ranges by -delta, keeps
\* both widths and sets the anchor to the cursor data point.
C7_DragAloneShifts ==
    (/\ lastOp.op = "OnMotion"
     /\ PreGesture.drag
     /\ ~PreGesture.zoom
     /\ ~lastOp.raised
     /\ HasRanges(PreView.last_draw)) => DragUpdated(PreXY)

\* C7 witness: a motion update of the drag gesture alone that moved the view
C7_DraggedView ==
    /\ lastOp.op = "OnMotion"
    /\ PreGesture.drag
    /\ ~PreGesture.zoom
    /\ ~lastOp.raised
    /\ HasRanges(PreView.last_draw)
    /\ HasRanges(last_draw)
    /\ last_draw[2] # PreView.last_draw[2]
    /\ _dragPoint0 = PreXY

\* the points the round trip is checked at
RoundTripPoints == {Pair(0, 0), Pair(3, -7), <<<<1, 2>>, <<-5, 3>>>>}

\* the handlers that run _Draw
DrawingOps ==
    {"Draw", "Zoom", "Reset", "ScrollRight", "ScrollUp", "Redraw", "OnSize",
     "OnMouseMiddleUp", "OnMouseWheel", "OnMotion"}

\* a finite transform whose scale components are not zero
ScaleNonZero ==
    /\ InWindow(_pointScale[1]) /\ _pointScale[1] # R(0)
    /\ InWindow(_pointScale[2]) /\ _pointScale[2] # R(0)
    /\ InWindow(_pointShift[1])
    /\ InWindow(_pointShift[2])

\* C8: for a transform with non-zero scale components and a finite point p,
\* PositionScreenToUser(PositionUserToScreen(p)) = p and
\* PositionUserToScreen(PositionScreenToUser(p)) = p; before the first draw
\* the transform is the identity: it is the identity at creation and only a
\* handler that draws changes it, Draw itself or another one with a plot
\* present.
C8_RoundTrip ==
    /\ ScaleNonZero =>
           \A p \in RoundTripPoints :
               /\ SamePairOrFar(
                      PositionScreenToUser(PositionUserToScreen(p)), p)
               /\ SamePairOrFar(
                      PositionUserToScreen(PositionScreenToUser(p)), p)
    /\ lastOp.op = "init" =>
           _pointScale = Pair(1, 1) /\ _pointShift = Pair(0, 0)
    /\ (_pointScale # PreView.scale \/ _pointShift # PreView.shift) =>
           /\ lastOp.op \in DrawingOps
           /\ lastOp.op = "Draw" \/ ~IsNone(PreView.last_draw)

\* C8 witness: a drawn plot whose transform is not the identity, with the
\* round trip of (3, -7) through the screen
C8_DrawnTransform ==
    /\ drawn
    /\ ScaleNonZero
    /\ _pointScale # Pair(1, 1)
    /\ PositionUserToScreen(Pair(3, -7)) # Pair(3, -7)
    /\ PositionScreenToUser(PositionUserToScreen(Pair(3, -7))) = Pair(3, -7)
    /\ PositionUserToScreen(PositionScreenToUser(Pair(3, -7))) = Pair(3, -7)

\* the powers of ten a grid step is looked for among
GridPowers == -6 .. 6

\* power = floor(log10(range)), reduced by one when
\* log10(range) - floor(log10(range)) <= 0.05
ClaimedPower(range) ==
    LET p == CHOOSE q \in GridPowers :
                 RLe(Pow10(q), range) /\ RLt(range, Pow10(q + 1))
    IN  IF FractionSmall(Mantissa(range, p)) THEN p - 1 ELSE p

IsMultiple(a, grid) == RMod(a, grid) = R(0)

\* (a, b) encloses (lower, upper) and a, b, b - a are multiples of grid
RoundedOutward(result, lower, upper, grid) ==
    /\ RLe(result[1], lower)
    /\ RLe(upper, result[2])
    /\ IsMultiple(result[1], grid)
    /\ IsMultiple(result[2], grid)
    /\ IsMultiple(RSub(result[2], result[1]), grid)

\* C9: for lower < upper, _axisInterval('auto', lower, upper) returns
\* (a, b) with a <= lower and b >= upper, a and b multiples of
\* grid = 10^power, power = floor(log10(upper - lower)) reduced by one when
\* log10(upper - lower) - floor(log10(upper - lower)) <= 0.05; hence b - a
\* is a multiple of grid.
C9_AutoRoundsOutward ==
    (/\ ax.spec.kind = "auto"
     /\ ~IsNone(ax.result)
     /\ RLt(ax.lower, ax.upper)) =>
        RoundedOutward(ax.result, ax.lower, ax.upper,
                       Pow10(ClaimedPower(RSub(ax.upper, ax.lower))))

\* C9 witness: _axisInterval('auto', -1.3, 0.7) = (-2, 1), grid 1
C9_AutoRounded ==
    /\ ax.spec.kind = "auto"
    /\ ax.lower = <<-13, 10>>
    /\ ax.upper = <<7, 10>>
    /\ ~IsNone(ax.result)
    /\ ax.result = Pair(-2, 1)

\* the pair of a tuple or list spec, first element <= second
NormalizedPair(spec) ==
    IF RLe(spec.lo, spec.hi) THEN <<spec.lo, spec.hi>>
    ELSE <<spec.hi, spec.lo>>

\* the last handler was a Draw that went on to _Draw
DrawReached_Draw ==
    /\ lastOp.op = "Draw"
    /\ ~ZeroWidth(lastOp.arg[2])
    /\ ~ZeroWidth(lastOp.arg[3])

\* a Draw that resolves an axis from a spec of the given kinds stores the
\* normalized pair of the spec as the range of that axis
PairSpecResolved(kinds) ==
    /\ (DrawReached_Draw /\ IsNone(lastOp.arg[2]) /\ _xSpec.kind \in kinds) =>
           /\ HasRanges(last_draw)
           /\ last_draw[2] = NormalizedPair(_xSpec)
    /\ (DrawReached_Draw /\ IsNone(lastOp.arg[3]) /\ _ySpec.kind \in kinds) =>
           /\ HasRanges(last_draw)
           /\ last_draw[3] = NormalizedPair(_ySpec)

\* C10: when the axis spec is a (min, max) pair given as a tuple or a list,
\* the axis range resolved at draw time is that pair with its first element
\* <= its second, whatever the data bounds.
C10_PairSpecResolved == PairSpecResolved({"tuple", "list"})

\* C10, for a tuple spec while no axis spec is a list: the axis range
\* resolved at draw time is the pair with its first element <= its second.
C10_TupleSpecResolved ==
    (_xSpec.kind # "list" /\ _ySpec.kind # "list") =>
        PairSpecResolved({"tuple"})

\* C10 witness: Draw(graphics) under the x spec (4, 0) stored x: (0, 4)
C10_TupleSwapped ==
    /\ lastOp.op = "Draw"
    /\ IsNone(lastOp.arg[2])
    /\ _xSpec = SpecTuple(4, 0)
    /\ HasRanges(last_draw)
    /\ last_draw[2] = Pair(0, 4)

(***************************************************************************)
(* C11, C12: the tick generator.                                           *)
(***************************************************************************)
TickLower == call.arg.lower

TickUpper == call.arg.upper

TickCount == call.arg.numticks

TicksCalled == call.fn = "_ticks" /\ call.done /\ RLt(TickLower, TickUpper)

\* ticks is strictly ascending inside [lower, upper], spaced grid apart, and
\* starts at the lowest multiple of grid that is >= lower
TicksOnGrid(ticks, lower, upper, grid) ==
    /\ Len(ticks) >= 1
    /\ \A i \in 1 .. Len(ticks) : RLe(lower, ticks[i]) /\ RLe(ticks[i], upper)
    /\ \A i \in 1 .. Len(ticks) - 1 :
           /\ RLt(ticks[i], ticks[i + 1])
           /\ RSub(ticks[i + 1], ticks[i]) = grid
    /\ IsMultiple(ticks[1], grid)
    /\ RLt(RSub(ticks[1], grid), lower)

TicksReturnedOnGrid ==
    /\ ~call.result.raised
    /\ TicksOnGrid(call.result.value.ticks, TickLower, TickUpper,
                   TickGrid(TickIdeal(TickLower, TickUpper, TickCount),
                            TickCount))

\* C11: for every lower < upper, _ticks(lower, upper, numticks) returns a
\* finite tick list whose positions are strictly ascending, lie in
\* [lower, upper], are spaced exactly grid apart and start at the lowest
\* multiple of grid that is >= lower.
C11_TicksOnGrid == TicksCalled => TicksReturnedOnGrid

\* C11, for a numticks that is not a number or is a number n >= 1
C11_TicksOnGridForCount ==
    (/\ TicksCalled
     /\ TickCount.kind = "number" => RLe(R(1), TickCount.lo)) =>
        TicksReturnedOnGrid

\* C11 witness: _ticks(-1.3, 0.7, 'auto') returned the ten ticks -1.2, -1.0,
\* ..., 0.6 on the grid 0.2
C11_TicksOfAuto ==
    /\ call.fn = "_ticks"
    /\ call.done
    /\ call.arg = [numticks |-> SpecAuto, lower |-> <<-13, 10>>,
                   upper |-> <<7, 10>>]
    /\ ~call.result.raised
    /\ Len(call.result.value.ticks) = 10
    /\ call.result.value.ticks[1] = <<-6, 5>>
    /\ call.result.value.ticks[10] = <<3, 5>>

NumberSpecCalled ==
    /\ TicksCalled
    /\ TickCount.kind = "number"
    /\ RLe(R(1), TickCount.lo)

\* C12: with a number n >= 1 as the axis spec the axis range is the exact
\* data bounds, as for 'min', and the tick list of the axis holds exactly n
\* ticks.
C12_NumberSpecTickCount ==
    NumberSpecCalled =>
        /\ _axisInterval(TickCount, TickLower, TickUpper) =
               <<TickLower, TickUpper>>
        /\ _axisInterval(TickCount, TickLower, TickUpper) =
               _axisInterval(SpecMin, TickLower, TickUpper)
        /\ ~call.result.raised
        /\ R(Len(call.result.value.ticks)) = TickCount.lo

\* C12, as the code has it: the range is the exact data bounds, and the
\* list holds n ticks, or n + 1 when lower is a multiple of the spacing
\* (upper - lower) / n
C12_NumberSpecTicks ==
    NumberSpecCalled =>
        /\ _axisInterval(TickCount, TickLower, TickUpper) =
               <<TickLower, TickUpper>>
        /\ _axisInterval(TickCount, TickLower, TickUpper) =
               _axisInterval(SpecMin, TickLower, TickUpper)
        /\ ~call.result.raised
        /\ R(Len(call.result.value.ticks)) =
               IF IsMultiple(TickLower,
                             RDiv(RSub(TickUpper, TickLower), TickCount.lo))
               THEN RAdd(TickCount.lo, R(1)) ELSE TickCount.lo

\* C12 witness: _ticks(-1.3, 0.7, 5) returned the five ticks -1.2, -0.8,
\* -0.4, 0, 0.4
C12_FiveTicks ==
    /\ call.fn = "_ticks"
    /\ call.done
    /\ call.arg = [numticks |-> SpecNumber(5), lower |-> <<-13, 10>>,
                   upper |-> <<7, 10>>]
    /\ ~call.result.raised
    /\ call.result.value.ticks =
           <<<<-6, 5>>, <<-4, 5>>, <<-2, 5>>, <<0, 1>>, <<2, 5>>>>

(***************************************************************************)
(* C13 .. C16, C19: the box plot.                                          *)
(***************************************************************************)
BoxBuiltNow == box.state = "built"

\* the cleaned sample of the object, and its order statistics
CleanSample == _clean_data(box.data)

OrderStats == Sorted(CleanSample)

DocSample ==
    <<R(1), R(2), R(3), R(4), R(5), R(6), R(7), R(8), R(9), R(100)>>

\* the q-th percentile by linear interpolation: with h = (n - 1) * q / 100,
\* i = floor(h) and f = h - i, the value (1 - f) * s[i] + f * s[i + 1]
\* (order statistics counted from 0)
LinearPercentile(s, q) ==
    LET h == (Len(s) - 1) * q
        i == h \div 100
        f == Norm(h % 100, 100)
    IN  IF h % 100 = 0 THEN s[i + 1]
        ELSE RAdd(RMul(RSub(R(1), f), s[i + 1]), RMul(f, s[i + 2]))

IQR == RSub(box._bpdata.q75, box._bpdata.q25)

LowFence == RSub(box._bpdata.q25, RMul(<<3, 2>>, IQR))

HighFence == RAdd(box._bpdata.q75, RMul(<<3, 2>>, IQR))

InSeq(v, seq) == \E i \in 1 .. Len(seq) : seq[i] = v

\* C13: q25 and q75 are the 25th and 75th percentiles of the cleaned sample
\* by linear interpolation between order statistics, a value above
\* q75 + 1.5 * IQR is an outlier, and the sample 1 .. 9, 100 has q25 = 3.25,
\* q75 = 7.75 and the outlier 100.
C13_Quartiles ==
    BoxBuiltNow =>
        /\ box._bpdata.q25 = LinearPercentile(OrderStats, 25)
        /\ box._bpdata.q75 = LinearPercentile(OrderStats, 75)
        /\ \A i \in 1 .. Len(CleanSample) :
               RLt(HighFence, CleanSample[i]) =>
                   InSeq(CleanSample[i], box._outliers)
        /\ box.data = DocSample =>
               /\ box._bpdata.q25 = <<13, 4>>
               /\ box._bpdata.q75 = <<31, 4>>
               /\ InSeq(R(100), box._outliers)

\* C13 witness: the box plot of 1 .. 9, 100
C13_DocSampleQuartiles ==
    /\ BoxBuiltNow
    /\ box.data = DocSample
    /\ box._bpdata.q25 = <<13, 4>>
    /\ box._bpdata.q75 = <<31, 4>>
    /\ box._outliers = <<R(100)>>

\* C14: for the sample 1 .. 9, 100 the median of the summary is
\* approximately 4.5 (within 0.1 of it), the median being the 50th
\* percentile of the cleaned sample.
C14_MedianAboutFourAndHalf ==
    BoxBuiltNow =>
        /\ box._bpdata.median = LinearPercentile(OrderStats, 50)
        /\ box.data = DocSample =>
               RLe(RAbs(RSub(box._bpdata.median, <<9, 2>>)), <<1, 10>>)

\* C14, as the code has it: the median is the 50th percentile of the
\* cleaned sample, which for 1 .. 9, 100 is 5.5, the mean of 5 and 6
C14_MedianIsFiftiethPercentile ==
    BoxBuiltNow =>
        /\ box._bpdata.median = LinearPercentile(OrderStats, 50)
        /\ box.data = DocSample => box._bpdata.median = <<11, 2>>

\* C14 witness: the box plot of 1 .. 9, 100 with its median 5.5
C14_DocSampleMedian ==
    /\ BoxBuiltNow
    /\ box.data = DocSample
    /\ box._bpdata.median = <<11, 2>>

\* C15: the outliers are exactly the values of the cleaned sample outside
\* [q25 - 1.5 * IQR, q75 + 1.5 * IQR], and both whiskers are sample values
\* that are not outliers.
C15_OutliersOutsideFence ==
    BoxBuiltNow =>
        /\ box._outliers =
               SelectSeq(CleanSample,
                         LAMBDA v : RLt(v, LowFence) \/ RLt(HighFence, v))
        /\ InSeq(box._bpdata.low_whisker, CleanSample)
        /\ InSeq(box._bpdata.high_whisker, CleanSample)
        /\ ~InSeq(box._bpdata.low_whisker, box._outliers)
        /\ ~InSeq(box._bpdata.high_whisker, box._outliers)

\* C15 witness: a sample with an outlier below the fence, the low whisker
\* being the lowest value inside it
C15_OutlierBelowFence ==
    /\ BoxBuiltNow
    /\ \E i \in 1 .. Len(box._outliers) : RLt(box._outliers[i], LowFence)
    /\ RLt(box._bpdata.min, box._bpdata.low_whisker)
    /\ RLe(LowFence, box._bpdata.low_whisker)

BoundingBoxCalled == BoxBuiltNow /\ call.fn = "boundingBox" /\ call.done

BoundingBoxFormula ==
    /\ call.result.value.minXY[2] = RMul(box._bpdata.min, <<19, 20>>)
    /\ call.result.value.maxXY[2] = RMul(box._bpdata.max, <<21, 20>>)
    /\ call.result.value.minXY[1] = RSub(box.xpos, <<1, 4>>)
    /\ call.result.value.maxXY[1] = RAdd(box.xpos, <<1, 4>>)

InsideY(v) ==
    /\ RLe(call.result.value.minXY[2], v)
    /\ RLe(v, call.result.value.maxXY[2])

BoundingBoxContains ==
    /\ \A i \in 1 .. 7 : InsideY(BpTuple(box._bpdata)[i])
    /\ \A i \in 1 .. Len(box._outliers) : InsideY(box._outliers[i])

\* C16: boundingBox() returns the y interval [min * 0.95, max * 1.05] and
\* the x interval [xpos - box_width / 2, xpos + box_width / 2], and the
\* y interval contains min, both whiskers, q25, median, q75, max and every
\* outlier, for samples of any sign.
C16_BoundingBoxPadded ==
    BoundingBoxCalled => BoundingBoxFormula /\ BoundingBoxContains

\* C16 for a sample without negative values
C16_BoundingBoxOfPositive ==
    BoundingBoxCalled =>
        /\ BoundingBoxFormula
        /\ RLe(R(0), box._bpdata.min) => BoundingBoxContains

\* C16 witness: the bounding box of the box plot of 1 .. 9, 100 at xpos 1
C16_DocSampleBox ==
    /\ BoundingBoxCalled
    /\ box.data = DocSample
    /\ call.result.value = [minXY |-> <<<<3, 4>>, <<19, 20>>>>,
                             maxXY |-> <<<<5, 4>>, <<105, 1>>>>]

\* C19: the jitter is assigned in the constructor, one offset per outlier,
\* each in [xpos - 0.025, xpos + 0.025]; no later operation changes it, and
\* a draw puts each outlier at the x position of its offset.
C19_JitterStable ==
    BoxBuiltNow =>
        /\ Len(box.jitter) = Len(box._outliers)
        /\ \A i \in 1 .. Len(box.jitter) :
               /\ RLe(RSub(box.xpos, <<1, 40>>), box.jitter[i])
               /\ RLe(box.jitter[i], RAdd(box.xpos, <<1, 40>>))
        /\ box.jitter = box.jitter0
        /\ (call.fn = "draw" /\ call.done) =>
               /\ Len(call.result.value.outliers) = Len(box._outliers)
               /\ \A i \in 1 .. Len(box._outliers) :
                      call.result.value.outliers[i][1] =
                          RAdd(RMul(box.currentScale[1], box.jitter0[i]),
                               box.currentShift[1])

\* C19 witness: a draw, after scaleAndShift, of a series with an outlier
\* whose offset is not the middle of the box
C19_DrawnOutlier ==
    /\ BoxBuiltNow
    /\ call.fn = "draw"
    /\ call.done
    /\ box.currentScale = Pair(2, -1)
    /\ Len(box._outliers) >= 1
    /\ box.jitter[1] # box.xpos

(***************************************************************************)
(* C17: the closest point of the canvas.                                   *)
(***************************************************************************)
ClosestCalled == call.fn = "GetClosestPoint" /\ call.done

\* the objects GetClosestPoint was asked about, in graphics order
AskedObjects == IF IsNone(last_draw) THEN <<>> ELSE last_draw[1]

NonEmptyCurves ==
    {i \in 1 .. Len(AskedObjects) : Len(AskedObjects[i].obj._points) > 0}

\* the (squared) distance of point k of object i from the query, on the
\* screen when pointScaled and in user coordinates otherwise
DistOf(i, k) ==
    IF call.arg.pointScaled
    THEN Dist2(AskedObjects[i].obj.scaled[k],
               VAdd(VMul(AskedObjects[i].obj.currentScale, call.arg.pntXY),
                    AskedObjects[i].obj.currentShift))
    ELSE Dist2(AskedObjects[i].obj._points[k], call.arg.pntXY)

\* point k of object i comes before point n of object j in graphics order
Before(i, k, j, n) == i < j \/ (i = j /\ k <= n)

\* the entry (c, k) is the closest: no point of any non-empty object is
\* nearer, and an equally near one comes later in the order
IsClosest(c, k) ==
    \A i \in NonEmptyCurves :
        \A n \in 1 .. Len(AskedObjects[i].obj._points) :
            /\ RLe(DistOf(c, k), DistOf(i, n))
            /\ DistOf(c, k) = DistOf(i, n) => Before(c, k, i, n)

ReturnedClosest ==
    /\ call.result.value.found
    /\ call.result.value.curveNum + 1 \in NonEmptyCurves
    /\ call.result.value.pntIndex \in
           1 .. Len(AskedObjects[call.result.value.curveNum + 1].obj._points)
    /\ call.result.value.legend =
           AskedObjects[call.result.value.curveNum + 1].legend
    /\ call.result.value.pointXY =
           AskedObjects[call.result.value.curveNum + 1]
               .obj._points[call.result.value.pntIndex]
    /\ call.result.value.dist =
           DistOf(call.result.value.curveNum + 1, call.result.value.pntIndex)
    /\ IsClosest(call.result.value.curveNum + 1, call.result.value.pntIndex)

\* C17: GetClosestPoint returns the entry of the least distance among the
\* closest points of the non-empty series of the last drawn graphics; of
\* equally distant entries the earliest series and in it the lowest point
\* index wins; without a plot, without series or with only empty series it
\* returns the empty list.
C17_ClosestOfAll ==
    ClosestCalled =>
        /\ ~call.result.raised
        /\ IF NonEmptyCurves = {}
           THEN ~call.result.value.found
           ELSE ReturnedClosest

\* C17 witness: two series equally distant from the query, the earlier one
\* returned, after an empty series that was passed over
C17_TieBetweenSeries ==
    /\ ClosestCalled
    /\ call.result.value.found
    /\ Len(AskedObjects) = 3
    /\ 1 \notin NonEmptyCurves
    /\ call.result.value.curveNum = 1
    /\ 3 \in NonEmptyCurves
    /\ DistOf(3, 1) = call.result.value.dist
    /\ AskedObjects[3].legend # AskedObjects[2].legend

(***************************************************************************)
(* C18: the connectors of a line series.                                   *)
(***************************************************************************)
PathCalled == call.fn = "_path" /\ call.done

KnownStyles ==
    {"line", "steps-pre", "steps-post", "steps-mid-x", "steps-mid-y"}

MeanOf(c1, c2) == RDiv(RAdd(c1, c2), R(2))

\* the connector from a to b the claim gives for each drawstyle
Connector(a, b, drawstyle) ==
    CASE drawstyle = "line" -> <<a, b>>
      [] drawstyle = "steps-pre" -> <<a, <<a[1], b[2]>>, b>>
      [] drawstyle = "steps-post" -> <<a, <<b[1], a[2]>>, b>>
      [] drawstyle = "steps-mid-x" ->
             <<a, <<MeanOf(a[1], b[1]), a[2]>>,
               <<MeanOf(a[1], b[1]), b[2]>>, b>>
      [] drawstyle = "steps-mid-y" ->
             <<a, <<a[1], MeanOf(a[2], b[2])>>,
               <<b[1], MeanOf(a[2], b[2])>>, b>>

\* the drawn line, its whole coordinates as numbers
DrawnPoints(line) == [i \in 1 .. Len(line) |-> Pair(line[i][1], line[i][2])]

\* the connector with every coordinate cut to a whole number towards zero
Truncated(line) ==
    [i \in 1 .. Len(line) |-> <<Trunc(line[i][1]), Trunc(line[i][2])>>]

\* C18: _path draws, for the points a and b, the connector of the
\* drawstyle, which starts at a and ends at b, and raises for any other
\* drawstyle.
C18_PathConnects ==
    PathCalled =>
        IF call.arg.drawstyle \in KnownStyles
        THEN /\ ~call.result.raised
             /\ DrawnPoints(call.result.value.line) =
                    Connector(call.arg.coord1, call.arg.coord2,
                              call.arg.drawstyle)
             /\ DrawnPoints(call.result.value.line)[1] = call.arg.coord1
             /\ DrawnPoints(call.result.value.line)
                    [Len(call.result.value.line)] = call.arg.coord2
        ELSE call.result.raised

\* C18, as the code has it: the line drawn is the connector with every
\* coordinate cut to a whole number towards zero, so that it starts at the
\* pixel of a and ends at the pixel of b; (0,0), (1,1) with steps-post
\* gives (0,0), (1,0), (1,1); any other drawstyle raises; and _draw draws
\* one such line for each two consecutive points, in their order.
C18_PathConnectsPixels ==
    /\ PathCalled =>
           IF call.arg.drawstyle \in KnownStyles
           THEN /\ ~call.result.raised
                /\ call.result.value.line =
                       Truncated(Connector(call.arg.coord1, call.arg.coord2,
                                           call.arg.drawstyle))
                /\ (/\ call.arg.coord1 = Pair(0, 0)
                    /\ call.arg.coord2 = Pair(1, 1)
                    /\ call.arg.drawstyle = "steps-post") =>
                       call.result.value.line = <<<<0, 0>>, <<1, 0>>, <<1, 1>>>>
           ELSE call.result.raised
    /\ (call.fn = "_draw" /\ call.done
            /\ call.arg.drawstyle \in KnownStyles) =>
           /\ ~call.result.raised
           /\ Len(call.result.value.lines) =
                  IF Len(call.arg.scaled) = 0 THEN 0
                  ELSE Len(call.arg.scaled) - 1
           /\ \A i \in 1 .. Len(call.result.value.lines) :
                  call.result.value.lines[i] =
                      Truncated(Connector(call.arg.scaled[i],
                                          call.arg.scaled[i + 1],
                                          call.arg.drawstyle))

\* C18 witness: a steps-mid-x connector between points off the pixel grid,
\* whose middle (0, 1.5), (0, 2.5) is drawn at (0, 1), (0, 2)
C18_MidStepOffGrid ==
    /\ PathCalled
    /\ call.arg.drawstyle = "steps-mid-x"
    /\ call.arg.coord1 = <<<<1, 2>>, <<3, 2>>>>
    /\ call.arg.coord2 = <<<<-1, 2>>, <<5, 2>>>>
    /\ ~call.result.raised
    /\ call.result.value.line = <<<<0, 1>>, <<0, 1>>, <<0, 2>>, <<0, 2>>>>

(***************************************************************************)
(* C20: the max range and the view.                                        *)
(***************************************************************************)
\* the handlers that move the view over the same graphics
ViewMoves == {"Zoom", "ScrollRight", "ScrollUp", "OnMotion", "Redraw"}

\* what GetXMaxRange() / GetYMaxRange() returned before the handler ran:
\* the axis interval of the graphics' bounding box under the axis spec
PreXMaxRange ==
    IF IsNone(PreView.last_draw) THEN Raised
    ELSE _axisInterval(lastOp.pre.xSpec, PreView.last_draw[1].p1[1],
                       PreView.last_draw[1].p2[1])

PreYMaxRange ==
    IF IsNone(PreView.last_draw) THEN Raised
    ELSE _axisInterval(lastOp.pre.ySpec, PreView.last_draw[1].p1[2],
                       PreView.last_draw[1].p2[2])

\* C20: Zoom, ScrollRight, ScrollUp, a motion of the drag or the zoom-drag
\* gesture and Redraw leave what GetXMaxRange() and GetYMaxRange() return
\* as it was before the call.
C20_MaxRangeKept ==
    lastOp.op \in ViewMoves =>
        /\ GetXMaxRange = PreXMaxRange
        /\ GetYMaxRange = PreYMaxRange

\* C20 witness: after a Zoom the view is x: (-5, 5) while GetXMaxRange()
\* still returns (-10, 10)
C20_ZoomedInsideMaxRange ==
    /\ lastOp.op = "Zoom"
    /\ HasRanges(last_draw)
    /\ last_draw[2] = Pair(-5, 5)
    /\ PreView.last_draw[2] = Pair(-10, 10)
    /\ GetXMaxRange = Pair(-10, 10)

(***************************************************************************)
(* C21: the ticks of a log axis of more than six decades.                  *)
(***************************************************************************)
LogTicksCalled == call.fn = "_logticks" /\ call.done

LogSpan == RSub(call.arg.upper, call.arg.lower)

WideLogAxis == LogTicksCalled /\ RLt(R(6), LogSpan)

LogTicksReturned == call.result.value.ticks

\* the ticks carrying a label
LabelledTicks ==
    {i \in 1 .. Len(LogTicksReturned) : LogTicksReturned[i].label # None}

\* the ticks are whole powers of ten, the first at the first whole exponent
\* not below lower, each next one floor(span / 6) decades on, up to upper
DecadeSpaced ==
    /\ ~call.result.raised
    /\ Len(LogTicksReturned) >= 1
    /\ RLe(call.arg.lower, R(LogTicksReturned[1].e))
    /\ RLt(R(LogTicksReturned[1].e - 1), call.arg.lower)
    /\ \A i \in 1 .. Len(LogTicksReturned) :
           /\ LogTicksReturned[i].m = 1
           /\ RLe(R(LogTicksReturned[i].e), call.arg.upper)
           /\ LogTicksReturned[i].label \in {None, <<1, LogTicksReturned[i].e>>}
    /\ \A i \in 1 .. Len(LogTicksReturned) - 1 :
           R(LogTicksReturned[i + 1].e - LogTicksReturned[i].e) =
               R(RFloor(RDiv(LogSpan, R(6))))
    /\ RLt(call.arg.upper,
           R(LogTicksReturned[Len(LogTicksReturned)].e
                 + RFloor(RDiv(LogSpan, R(6)))))

\* C21: for a span above six decades the ticks start at the first whole
\* exponent >= lower and are floor(span / 6) decades apart, so that at most
\* about six (here: at most seven) labelled ticks appear.
C21_AboutSixLabels ==
    WideLogAxis => DecadeSpaced /\ Cardinality(LabelledTicks) <= 7

\* C21 without the count of about six: the ticks are spaced as claimed, and
\* there are at most twelve of them
C21_DecadeSpacedTicks ==
    WideLogAxis => DecadeSpaced /\ Len(LogTicksReturned) <= 12

\* C21 witness: fourteen decades from 1e-1 to 1e13, a tick every other
\* decade
C21_EveryOtherDecade ==
    /\ WideLogAxis
    /\ call.arg = [lower |-> R(-1), upper |-> R(13)]
    /\ Len(LogTicksReturned) = 8
    /\ LogTicksReturned[1] = LogTick(1, -1, None)
    /\ LogTicksReturned[2] = LogTick(1, 1, <<1, 1>>)
    /\ LogTicksReturned[8] = LogTick(1, 13, <<1, 13>>)

(***************************************************************************)
(* C22: the construction of a histogram.                                   *)
(***************************************************************************)
HistCalled == call.fn = "PolyHistogram" /\ call.done

HistLengthsFit == Len(call.arg.binspec) = Len(call.arg.hist) + 1

\* the constructor raised and left an object without any attribute
HistNothingBuilt == call.result.raised /\ box.attrs = {}

\* the series has one point for each count, at the middle of its bin
HistPointsAtMidpoints ==
    /\ box.state = "built"
    /\ Len(box._points) = Len(call.arg.hist)
    /\ \A i \in 1 .. Len(call.arg.hist) :
           /\ box._points[i][1] =
                  RDiv(RAdd(call.arg.binspec[i], call.arg.binspec[i + 1]),
                       R(2))
           /\ box._points[i][2] = call.arg.hist[i]

\* C22: with len(binspec) # len(hist) + 1 the constructor fails before
\* anything is built; otherwise the series has len(hist) points, the i-th
\* at the midpoint of bin i with y = hist[i].
C22_HistogramBuilt ==
    HistCalled =>
        IF HistLengthsFit
        THEN ~call.result.raised /\ HistPointsAtMidpoints
        ELSE HistNothingBuilt

\* C22 where the constructor returns: a mismatch of the lengths fails before
\* anything is built, and a series that was built has the claimed points
C22_HistogramBuiltIfReturned ==
    HistCalled =>
        /\ ~HistLengthsFit => HistNothingBuilt
        /\ (HistLengthsFit /\ ~call.result.raised) => HistPointsAtMidpoints
        /\ box.state = "built" => HistLengthsFit

\* C22 witness: three counts over the edges 0, 1, 2, 4.5
C22_ThreeBars ==
    /\ HistCalled
    /\ call.arg.hist = <<R(1), R(3), R(1)>>
    /\ call.arg.binspec = <<R(0), R(1), R(2), <<9, 2>>>>
    /\ ~call.result.raised
    /\ box._points = <<<<<<1, 2>>, R(1)>>, <<<<3, 2>>, R(3)>>,
                       <<<<13, 4>>, R(1)>>>>

(***************************************************************************)
(* C23: Reset and the gestures.                                            *)
(***************************************************************************)
\* Reset() was called, directly or by the release of the middle button, and
\* returned
ResetCompleted ==
    lastOp.op \in {"Reset", "OnMouseMiddleUp"} /\ ~lastOp.raised

\* C23: after Reset() completes neither the drag nor the zoom-drag gesture
\* is active, whatever gesture was in progress.
C23_ResetEndsGestures ==
    ResetCompleted => ~_dragEnabled /\ ~_zoomEnabled

\* C23, as the code has it: Reset() leaves the gestures as they were
C23_ResetKeepsGestures == ResetCompleted => Gesture = PreGesture

\* C23 witness: the middle button released during a left-button drag over a
\* drawn plot; the drag is still active after the reset
C23_ResetWhileDragging ==
    /\ lastOp.op = "OnMouseMiddleUp"
    /\ ~lastOp.raised
    /\ HasRanges(last_draw)
    /\ PreGesture.drag
    /\ _dragEnabled
    /\ hasCapture

(***************************************************************************)
(* C24: the motion update of the zoom-drag gesture.                        *)
(***************************************************************************)
\* a motion event while the zoom-drag gesture is active over a plot
ZoomDragMotion ==
    /\ lastOp.op = "OnMotion"
    /\ PreGesture.zoom
    /\ HasRanges(PreView.last_draw)

\* the cursor's displacement in data space since the previous update
ZoomDelta == VSub(PreXY, PreGesture.zoomPoint1)

\* the range after a zoom about c by 1 - delta / width
Rescaled(axis, c, delta) ==
    ZoomAxis(axis, c, RSub(R(1), RDiv(delta, Width(axis))))

\* at most one range changed, the one of the larger displacement, and the
\* zoom centre is the one recorded at the start of the gesture
OneAxisRescaled ==
    /\ HasRanges(last_draw)
    /\ IF RLt(RAbs(ZoomDelta[2]), RAbs(ZoomDelta[1]))
       THEN /\ SamePairOrFar(last_draw[2],
                             Rescaled(PreView.last_draw[2],
                                      PreGesture.zoomPoint0[1], ZoomDelta[1]))
            /\ last_draw[3] = PreView.last_draw[3]
       ELSE IF RLt(RAbs(ZoomDelta[1]), RAbs(ZoomDelta[2]))
       THEN /\ last_draw[2] = PreView.last_draw[2]
            /\ SamePairOrFar(last_draw[3],
                             Rescaled(PreView.last_draw[3],
                                      PreGesture.zoomPoint0[2], ZoomDelta[2]))
       ELSE /\ last_draw[2] = PreView.last_draw[2]
            /\ last_draw[3] = PreView.last_draw[3]
    /\ _zoomPoint0 = PreGesture.zoomPoint0

\* C24: a motion update of the zoom-drag gesture rescales the x range only
\* when |dx| > |dy|, the y range only when |dy| > |dx| and neither when
\* they are equal, and leaves the zoom centre of the gesture alone.
C24_ZoomDragOneAxis == ZoomDragMotion => OneAxisRescaled

\* C24, where the drag gesture is not active as well and both ranges have
\* a width to divide by
C24_ZoomDragAloneOneAxis ==
    (/\ ZoomDragMotion
     /\ ~PreGesture.drag
     /\ Width(PreView.last_draw[2]) # R(0)
     /\ Width(PreView.last_draw[3]) # R(0)) => OneAxisRescaled

\* C24 witness: a motion update of the zoom-drag gesture alone that
\* rescaled the x range and left the y range as it was
C24_ZoomDraggedX ==
    /\ ZoomDragMotion
    /\ ~PreGesture.drag
    /\ ~lastOp.raised
    /\ RLt(RAbs(ZoomDelta[2]), RAbs(ZoomDelta[1]))
    /\ HasRanges(last_draw)
    /\ Width(last_draw[2]) # Width(PreView.last_draw[2])
    /\ last_draw[3] = PreView.last_draw[3]
(***************************************************************************)
(* C25: the view follows the cursor during a drag.                         *)
(***************************************************************************)
\* the data point under the cursor of the last mouse event, in the
\* transform now in force
UnderCursor ==
    PositionScreenToUser_Of(_pointScale, _pointShift,
                            GetPosition(lastOp.arg[1], clientSize))

\* the drag gesture alone is active over a plot and the last event left the
\* cursor where a drag update measures from
DragInProgress(events) ==
    /\ lastOp.op \in events
    /\ ~lastOp.raised
    /\ _dragEnabled
    /\ ~_zoomEnabled
    /\ HasRanges(last_draw)

\* this step is a drag update that redrew the plot
DragUpdate ==
    /\ lastOp'.op = "OnMotion"
    /\ ~lastOp'.raised
    /\ HasRanges(last_draw')

\* the cursor data point of this step's event in the transform before the
\* step and in the transform after it
CursorBefore ==
    PositionScreenToUser_Of(_pointScale, _pointShift,
                            GetPosition(lastOp'.arg[1], clientSize))

CursorAfter ==
    PositionScreenToUser_Of(_pointScale', _pointShift',
                            GetPosition(lastOp'.arg[1], clientSize'))

\* the step keeps the data point that was under the cursor under the cursor:
\* both ranges shift by minus the cursor's displacement in data space
FollowsCursor ==
    /\ CursorAfter = UnderCursor
    /\ last_draw'[2] =
           AxisShift(last_draw[2], RNeg(VSub(CursorBefore, UnderCursor)[1]))
    /\ last_draw'[3] =
           AxisShift(last_draw[3], RNeg(VSub(CursorBefore, UnderCursor)[2]))

\* C25: during a drag every update, the first as well as each later one,
\* shifts both ranges by minus the cursor's displacement since the previous
\* event, so that the data point grabbed at drag-start is under the cursor
\* again after every update.
C25_DragFollowsCursor ==
    [][(DragInProgress({"OnMouseLeftDown", "OnMotion"}) /\ DragUpdate)
           => FollowsCursor]_vars

\* C25 for k = 1: the first update after drag-start puts the grabbed data
\* point under the cursor again
C25_FirstUpdateFollowsCursor ==
    [][(DragInProgress({"OnMouseLeftDown"}) /\ DragUpdate)
           => FollowsCursor]_vars

\* C25 witness: a drag update that moved the view and put the anchor of the
\* gesture under the cursor again
C25_GrabbedPointUnderCursor ==
    /\ lastOp.op = "OnMotion"
    /\ ~lastOp.raised
    /\ PreGesture.drag
    /\ ~PreGesture.zoom
    /\ HasRanges(PreView.last_draw)
    /\ HasRanges(last_draw)
    /\ last_draw[2] # PreView.last_draw[2]
    /\ UnderCursor = PreGesture.dragPoint0
(***************************************************************************)
(* C26: how long a gesture lasts, and the mouse capture.                   *)
(***************************************************************************)
\* the events that are not the end of a drag, and of a zoom-drag
DragSurvives ==
    {"OnMotion", "OnMouseRightDown", "OnMouseRightUp", "OnMouseWheel"}

ZoomSurvives ==
    {"OnMotion", "OnMouseLeftDown", "OnMouseLeftUp", "OnMouseWheel"}

\* C26: a drag stays active across motion, right-down, right-up and wheel
\* events, a zoom-drag across motion, left-down, left-up and wheel events,
\* and the mouse is captured exactly while a gesture is active.
C26_GestureLastsToItsEnd ==
    /\ (PreGesture.drag /\ lastOp.op \in DragSurvives) => _dragEnabled
    /\ (PreGesture.zoom /\ lastOp.op \in ZoomSurvives) => _zoomEnabled
    /\ hasCapture <=> (_dragEnabled \/ _zoomEnabled)

\* C26, for a gesture whose capture has not been released by the end of the
\* other gesture: it stays active across the events that are not its end,
\* and the mouse is captured only while a gesture is active.
C26_CapturedGestureLasts ==
    /\ (PreGesture.drag /\ PreGesture.capture /\ lastOp.op \in DragSurvives)
           => _dragEnabled
    /\ (PreGesture.zoom /\ PreGesture.capture /\ lastOp.op \in ZoomSurvives)
           => _zoomEnabled
    /\ hasCapture => (_dragEnabled \/ _zoomEnabled)

\* C26 witness: a motion update of a drag over a plot, after which the drag
\* is still active and the mouse still captured
C26_StillDragging ==
    /\ lastOp.op = "OnMotion"
    /\ PreGesture.drag
    /\ PreGesture.capture
    /\ HasRanges(PreView.last_draw)
    /\ _dragEnabled
    /\ hasCapture
(***************************************************************************)
(* C27: the order of the box-plot summary.                                 *)
(***************************************************************************)
\* C27: the summary of every non-empty cleaned sample is ordered,
\* min <= low_whisker <= q25 <= median <= q75 <= high_whisker <= max.
C27_SummaryOrdered ==
    BoxBuiltNow =>
        /\ RLe(box._bpdata.min, box._bpdata.low_whisker)
        /\ RLe(box._bpdata.low_whisker, box._bpdata.q25)
        /\ RLe(box._bpdata.q25, box._bpdata.median)
        /\ RLe(box._bpdata.median, box._bpdata.q75)
        /\ RLe(box._bpdata.q75, box._bpdata.high_whisker)
        /\ RLe(box._bpdata.high_whisker, box._bpdata.max)

\* C27, as far as the code orders the summary: the quartiles lie around the
\* median and the whiskers around it inside [min, max]; a whisker is not
\* compared with the box edge on its side
C27_WhiskersAroundMedian ==
    BoxBuiltNow =>
        /\ RLe(box._bpdata.min, box._bpdata.low_whisker)
        /\ RLe(box._bpdata.low_whisker, box._bpdata.median)
        /\ RLe(box._bpdata.median, box._bpdata.high_whisker)
        /\ RLe(box._bpdata.high_whisker, box._bpdata.max)
        /\ RLe(box._bpdata.min, box._bpdata.q25)
        /\ RLe(box._bpdata.q25, box._bpdata.median)
        /\ RLe(box._bpdata.median, box._bpdata.q75)
        /\ RLe(box._bpdata.q75, box._bpdata.max)

\* C27 witness: the summary of 1 .. 9, 100, every part strictly above the
\* one before it except the low whisker, which is the minimum
C27_DocSampleOrdered ==
    /\ BoxBuiltNow
    /\ box.data = DocSample
    /\ box._bpdata.min = box._bpdata.low_whisker
    /\ RLt(box._bpdata.low_whisker, box._bpdata.q25)
    /\ RLt(box._bpdata.q25, box._bpdata.median)
    /\ RLt(box._bpdata.median, box._bpdata.q75)
    /\ RLt(box._bpdata.q75, box._bpdata.high_whisker)
    /\ RLt(box._bpdata.high_whisker, box._bpdata.max)
(***************************************************************************)
(* C28: a plot that is present has both of its ranges.                     *)
(***************************************************************************)
\* the operations that read the ranges of last_draw
RangeReaders ==
    {"Zoom", "ScrollRight", "ScrollUp", "OnMouseWheel", "OnMotion"}

\* the last operation stopped on a range that is None
FailedOnMissingRange ==
    /\ lastOp.op \in RangeReaders
    /\ lastOp.raised
    /\ ~IsNone(PreView.last_draw)
    /\ ~HasRanges(PreView.last_draw)

\* C28: whenever last_draw is present both of its ranges are defined, so
\* that no operation that reads them fails on a missing range, after
\* SetLogScale and SetAbsScale as after any other operation.
C28_RangesDefined ==
    /\ IsNone(last_draw) \/ HasRanges(last_draw)
    /\ ~FailedOnMissingRange

\* C28 for the operations other than the two scale setters: called on a plot
\* with both ranges they leave a plot with both ranges; and a redraw that
\* resolves the ranges again gives a plot without them its ranges back
C28_RangesKeptByOthers ==
    /\ (/\ lastOp.op \notin {"SetLogScale", "SetAbsScale"}
        /\ HasRanges(PreView.last_draw)) => HasRanges(last_draw)
    /\ (/\ lastOp.op \in {"Draw", "Reset", "Redraw"}
        /\ ~lastOp.raised
        /\ ~IsNone(PreView.last_draw)) => HasRanges(last_draw)

\* C28 witness: a plot that a scale setter left without ranges has them
\* again after a redraw
C28_RangesResolvedAgain ==
    /\ lastOp.op \in {"Reset", "Redraw"}
    /\ ~lastOp.raised
    /\ ~IsNone(PreView.last_draw)
    /\ ~HasRanges(PreView.last_draw)
    /\ HasRanges(last_draw)

(***************************************************************************)
(* C29: the log-scale setting of the canvas and of the drawn graphics.     *)
(***************************************************************************)
\* GetLogScale()
GetLogScale == _logScale

\* C29: while a plot is present the logScale of its graphics is the one
\* GetLogScale() returns, and SetAbsScale leaves the log-scale setting of
\* the canvas and of the drawn graphics as they were.
C29_LogScaleAgrees ==
    /\ ~IsNone(last_draw) => last_draw[1].logScale = GetLogScale
    /\ lastOp.op = "SetAbsScale" =>
           /\ GetLogScale = lastOp.pre.logScale
           /\ ~IsNone(PreView.last_draw) =>
                  last_draw[1].logScale = PreView.last_draw[1].logScale

\* C29 for Draw and SetLogScale: the graphics they leave in last_draw has
\* the log-scale setting of the canvas; SetAbsScale leaves the setting of
\* the canvas as it was
C29_LogScaleSetByDraw ==
    /\ (/\ lastOp.op \in {"Draw", "SetLogScale"}
        /\ ~lastOp.raised
        /\ ~IsNone(last_draw)) => last_draw[1].logScale = GetLogScale
    /\ lastOp.op = "SetAbsScale" => GetLogScale = lastOp.pre.logScale

\* C29 witness: a plot drawn on a canvas whose axes are both log axes
C29_DrawnOnLogAxes ==
    /\ lastOp.op = "Draw"
    /\ ~lastOp.raised
    /\ GetLogScale = <<TRUE, TRUE>>
    /\ HasRanges(last_draw)
    /\ last_draw[1].logScale = <<TRUE, TRUE>>
    /\ last_draw[2] = Pair(0, 2)
    /\ last_draw[3] = Pair(1, 3)
(***************************************************************************)
(* C30: a redraw without new ranges keeps the view.                        *)
(***************************************************************************)
\* Redraw, the resize handler and the style setters that redraw
Redrawers == {"Redraw", "OnSize", "SetEnableGrid", "SetGridPen"}

\* C30: Redraw(), OnSize and every style setter that redraws leave the
\* graphics and both ranges of last_draw as they were, and leave last_draw
\* absent when no plot was drawn.
C30_RedrawKeepsView ==
    lastOp.op \in Redrawers => last_draw = PreView.last_draw

\* C30, for a canvas without a plot and for a plot that has both of its
\* ranges
C30_RedrawKeepsRanges ==
    (/\ lastOp.op \in Redrawers
     /\ IsNone(PreView.last_draw) \/ HasRanges(PreView.last_draw))
        => last_draw = PreView.last_draw

\* C30 witness: a resize of a zoomed plot, after which the graphics and the
\* zoomed ranges are the same
C30_ZoomedViewResized ==
    /\ lastOp.op = "OnSize"
    /\ ~lastOp.raised
    /\ clientSize # lastOp.pre.size
    /\ HasRanges(PreView.last_draw)
    /\ last_draw = PreView.last_draw
    /\ last_draw[2] # _getXMaxRange(last_draw[1])
    /\ _pointScale # PreView.scale
====
